---- MODULE Spec2Model ----
(***************************************************************************)
(* A model of the fluxflow rule engine: the expression language            *)
(* (internal/condition), the decision graph and its evaluator              *)
(* (internal/dag), the reward_points action (internal/action/points), the  *)
(* engine with its bounded worker pool (internal/engine), the rule loader  *)
(* (internal/config) and the reload and shutdown glue (cmd/server,         *)
(* internal/api).                                                          *)
(*                                                                         *)
(* Strings that the code scans character by character (expressions,        *)
(* formulas, regex patterns) are scanned here as sequences of              *)
(* one-character strings, Chars(s).  Numbers are fixed-point integers in   *)
(* units of 1/Scale.                                                       *)
(***************************************************************************)
EXTENDS Integers, Sequences, FiniteSets, TLC

\* ------------------------------------------------------------------------
\* Characters and strings
\* ------------------------------------------------------------------------

Digits == <<"0", "1", "2", "3", "4", "5", "6", "7", "8", "9">>

Lower == <<"a", "b", "c", "d", "e", "f", "g", "h", "i", "j", "k", "l", "m",
           "n", "o", "p", "q", "r", "s", "t", "u", "v", "w", "x", "y", "z">>

Upper == <<"A", "B", "C", "D", "E", "F", "G", "H", "I", "J", "K", "L", "M",
           "N", "O", "P", "Q", "R", "S", "T", "U", "V", "W", "X", "Y", "Z">>

Range(s) == {s[i] : i \in DOMAIN s}

IndexOf(s, x) == CHOOSE i \in DOMAIN s : s[i] = x

IsSpace(ch) == ch \in {" ", "\t", "\n", "\r"}

IsDigit(ch) == ch \in Range(Digits)

IsLetter(ch) == ch \in Range(Lower) \cup Range(Upper)

ToLowerCh(ch) == IF ch \in Range(Upper) THEN Lower[IndexOf(Upper, ch)] ELSE ch

ToUpperCh(ch) == IF ch \in Range(Lower) THEN Upper[IndexOf(Lower, ch)] ELSE ch

ToLower(s) == [i \in DOMAIN s |-> ToLowerCh(s[i])]

ToUpper(s) == [i \in DOMAIN s |-> ToUpperCh(s[i])]

\* A string as the sequence of its characters.
Chars(str) == [i \in 1..Len(str) |-> SubSeq(str, i, i)]

\* The characters s[i..j-1] (Go's s[i:j], 1-based here).
Slice(s, i, j) == SubSeq(s, i, j - 1)

RECURSIVE Join(_)
\* A character sequence as one string value.
Join(cs) == IF cs = <<>> THEN "" ELSE Head(cs) \o Join(Tail(cs))

StrToLower(str) == Join(ToLower(Chars(str)))

StrToUpper(str) == Join(ToUpper(Chars(str)))

RECURSIVE Split(_, _)
\* strings.Split on a one-character separator.
Split(cs, sep) ==
    IF \E i \in DOMAIN cs : cs[i] = sep
    THEN LET i == CHOOSE k \in DOMAIN cs :
                      cs[k] = sep /\ \A m \in 1..(k - 1) : cs[m] # sep
         IN  <<Slice(cs, 1, i)>> \o Split(SubSeq(cs, i + 1, Len(cs)), sep)
    ELSE <<cs>>

RECURSIVE ReplaceAll(_, _, _)
\* strings.ReplaceAll for a two-character old and a one-character new.
ReplaceAll(cs, old, new) ==
    IF Len(cs) < 2 THEN cs
    ELSE IF SubSeq(cs, 1, 2) = old
         THEN <<new>> \o ReplaceAll(SubSeq(cs, 3, Len(cs)), old, new)
         ELSE <<Head(cs)>> \o ReplaceAll(Tail(cs), old, new)

\* ------------------------------------------------------------------------
\* Dynamic values
\* ------------------------------------------------------------------------

Scale == 100

NumV(n) == [t |-> "num", s |-> "", n |-> n, b |-> FALSE, m |-> <<>>]

StrV(s) == [t |-> "str", s |-> s, n |-> 0, b |-> FALSE, m |-> <<>>]

BoolV(b) == [t |-> "bool", s |-> "", n |-> 0, b |-> b, m |-> <<>>]

\* A nested mapping: a sequence of [k, v] entries with distinct keys.
MapV(m) == [t |-> "map", s |-> "", n |-> 0, b |-> FALSE, m |-> m]

NilV == [t |-> "nil", s |-> "", n |-> 0, b |-> FALSE, m |-> <<>>]

\* ------------------------------------------------------------------------
\* Tokenizer (internal/condition)
\* ------------------------------------------------------------------------

Tok(kind, val) == [kind |-> kind, val |-> val]

RECURSIVE ScanString(_, _, _)
\* The index j at which the scan for the closing quote stops.
ScanString(expr, j, quote) ==
    IF j <= Len(expr) /\ expr[j] # quote
    THEN ScanString(expr, (IF expr[j] = "\\" THEN j + 1 ELSE j) + 1, quote)
    ELSE j

RECURSIVE ScanNumber(_, _)
ScanNumber(expr, j) ==
    IF j <= Len(expr) /\ (IsDigit(expr[j]) \/ expr[j] = ".")
    THEN ScanNumber(expr, j + 1)
    ELSE j

RECURSIVE ScanWord(_, _)
ScanWord(expr, j) ==
    IF j <= Len(expr)
       /\ (IsLetter(expr[j]) \/ IsDigit(expr[j]) \/ expr[j] = "_" \/ expr[j] = ".")
    THEN ScanWord(expr, j + 1)
    ELSE j

Unescape(inner) ==
    ReplaceAll(ReplaceAll(ReplaceAll(inner, <<"\\", "\"">>, "\""),
                          <<"\\", "'">>, "'"),
               <<"\\", "\\">>, "\\")

RECURSIVE tokenizeFrom(_, _, _)
tokenizeFrom(expr, i, tokens) ==
    IF i > Len(expr)
    THEN [ok |-> TRUE, tokens |-> Append(tokens, Tok("eof", ""))]
    ELSE
    LET ch == expr[i]
        nextIsDigit == i + 1 <= Len(expr) /\ IsDigit(expr[i + 1])
    IN  CASE IsSpace(ch) -> tokenizeFrom(expr, i + 1, tokens)
          [] ch = "(" -> tokenizeFrom(expr, i + 1, Append(tokens, Tok("lparen", "(")))
          [] ch = ")" -> tokenizeFrom(expr, i + 1, Append(tokens, Tok("rparen", ")")))
          [] ch \in {"=", "!", "<", ">"} ->
                IF i + 1 <= Len(expr) /\ expr[i + 1] = "="
                THEN tokenizeFrom(expr, i + 2, Append(tokens, Tok("op", Join(Slice(expr, i, i + 2)))))
                ELSE tokenizeFrom(expr, i + 1, Append(tokens, Tok("op", ch)))
          [] ch \in {"*", "/", "+"} ->
                tokenizeFrom(expr, i + 1, Append(tokens, Tok("op", ch)))
          [] ch = "-" /\ ~nextIsDigit ->
                tokenizeFrom(expr, i + 1, Append(tokens, Tok("op", ch)))
          [] ch \in {"\"", "'"} ->
                LET j == ScanString(expr, i + 1, ch)
                IN  IF j > Len(expr)
                    THEN [ok |-> FALSE, tokens |-> <<>>]
                    ELSE tokenizeFrom(expr, j + 1,
                             Append(tokens, Tok("string", Join(Unescape(Slice(expr, i + 1, j))))))
          [] IsDigit(ch) \/ (ch = "-" /\ nextIsDigit) ->
                LET j == ScanNumber(expr, IF ch = "-" THEN i + 1 ELSE i)
                IN  tokenizeFrom(expr, j, Append(tokens, Tok("number", Join(Slice(expr, i, j)))))
          [] IsLetter(ch) \/ ch = "_" ->
                LET j == ScanWord(expr, i)
                    word == Slice(expr, i, j)
                IN  IF Join(ToLower(word)) \in {"true", "false"}
                    THEN tokenizeFrom(expr, j, Append(tokens, Tok("bool", Join(ToLower(word)))))
                    ELSE tokenizeFrom(expr, j, Append(tokens, Tok("word", Join(word))))
          [] OTHER -> [ok |-> FALSE, tokens |-> <<>>]

tokenize(expr) == tokenizeFrom(Chars(expr), 1, <<>>)

\* ------------------------------------------------------------------------
\* Expression AST and recursive-descent parser (internal/condition)
\* ------------------------------------------------------------------------

StrSplit(str, sep) ==
    LET parts == Split(Chars(str), sep)
    IN  [i \in DOMAIN parts |-> Join(parts[i])]

StrContains(str, ch) == \E i \in 1..Len(str) : SubSeq(str, i, i) = ch

BinaryExpr(op, left, right) == [kind |-> "binary", op |-> op, left |-> left, right |-> right]

NotExpr(inner) == [kind |-> "not", expr |-> inner]

ComparisonExpr(left, op, right) == [kind |-> "cmp", left |-> left, op |-> op, right |-> right]

LiteralOperand(value) == [kind |-> "lit", value |-> value, path |-> <<>>]

FieldOperand(path) == [kind |-> "field", value |-> NilV, path |-> path]

NoNode == [kind |-> "none"]

\* What every parse function returns: the node, the parser position after it,
\* and whether it succeeded (err == nil).
Parsed(node, pos) == [ok |-> TRUE, node |-> node, pos |-> pos]

ParseError(pos) == [ok |-> FALSE, node |-> NoNode, pos |-> pos]

RECURSIVE DigitsValue(_)
\* The value of a run of decimal digits.
DigitsValue(cs) ==
    IF cs = <<>> THEN 0
    ELSE 10 * DigitsValue(SubSeq(cs, 1, Len(cs) - 1)) + (IndexOf(Digits, cs[Len(cs)]) - 1)

\* strconv.ParseInt(val, 10, 64) of a number token, lifted to float64; a
\* literal of more than 19 digits is out of the int64 range.
ParseInt(val) ==
    LET cs == Chars(val)
        neg == cs # <<>> /\ cs[1] = "-"
        ds == IF neg THEN Tail(cs) ELSE cs
    IN  IF ds = <<>> \/ Len(ds) > 19
        THEN [ok |-> FALSE, value |-> NilV]
        ELSE [ok |-> TRUE,
              value |-> NumV((IF neg THEN -1 ELSE 1) * DigitsValue(ds) * Scale)]

\* strconv.ParseFloat(val, 64) of a number token: digits with exactly one
\* point; the fraction is kept to the model's resolution of 1/Scale.
ParseFloat(val) ==
    LET cs == Chars(val)
        neg == cs # <<>> /\ cs[1] = "-"
        ds == IF neg THEN Tail(cs) ELSE cs
        parts == Split(ds, ".")
        frac == SubSeq(parts[2] \o <<"0", "0">>, 1, 2)
    IN  IF Len(parts) # 2 \/ (parts[1] = <<>> /\ parts[2] = <<>>)
        THEN [ok |-> FALSE, value |-> NilV]
        ELSE [ok |-> TRUE,
              value |-> NumV((IF neg THEN -1 ELSE 1)
                             * (DigitsValue(parts[1]) * Scale + DigitsValue(frac)))]

peek(tokens, pos) == tokens[pos]

\* parseOperand, the tokNumber case after strconv has run: r is its outcome.
numberOperand(r, pos) ==
    IF r.ok THEN Parsed(LiteralOperand(r.value), pos + 1) ELSE ParseError(pos + 1)

\* parseOperand on the token t it peeked at position pos.
operandOf(t, pos) ==
    CASE t.kind = "string" -> Parsed(LiteralOperand(StrV(t.val)), pos + 1)
      [] t.kind = "number" ->
            numberOperand(IF StrContains(t.val, ".") THEN ParseFloat(t.val)
                          ELSE ParseInt(t.val), pos)
      [] t.kind = "bool" -> Parsed(LiteralOperand(BoolV(t.val = "true")), pos + 1)
      [] t.kind = "word" -> Parsed(FieldOperand(StrSplit(t.val, ".")), pos + 1)
      [] OTHER -> ParseError(pos)

parseOperand(tokens, pos) == operandOf(peek(tokens, pos), pos)

\* parseComparison once both operands are parsed.
comparisonOf(left, op, right) ==
    IF ~right.ok THEN right
    ELSE Parsed(ComparisonExpr(left.node, op, right.node), right.pos)

\* A token parseComparison accepts as the operator: any tokOp, or the words
\* contains and matches.
isOperator(t) ==
    \/ t.kind = "op"
    \/ t.kind = "word" /\ StrToLower(t.val) \in {"contains", "matches"}

\* The operator spelled by token t.
operatorOf(t) == IF t.kind = "op" THEN t.val ELSE StrToLower(t.val)

\* parseComparison on the token t that follows the left operand.
comparisonFrom(tokens, left, t) ==
    IF isOperator(t)
    THEN comparisonOf(left, operatorOf(t), parseOperand(tokens, left.pos + 1))
    ELSE ParseError(left.pos)

\* parseComparison after its left operand.
comparisonAfter(tokens, left) ==
    IF ~left.ok THEN left ELSE comparisonFrom(tokens, left, peek(tokens, left.pos))

parseComparison(tokens, pos) == comparisonAfter(tokens, parseOperand(tokens, pos))

IsKeyword(t, word) == t.kind = "word" /\ StrToUpper(t.val) = word

\* parseNot, the NOT case after the operand of NOT is parsed.
notOf(inner) ==
    IF ~inner.ok THEN inner ELSE Parsed(NotExpr(inner.node), inner.pos)

\* parseNot, the parenthesis case after the inner expression is parsed:
\* expect(tokRParen).
groupOf(tokens, inner) ==
    IF ~inner.ok THEN inner
    ELSE IF peek(tokens, inner.pos).kind # "rparen" THEN ParseError(inner.pos)
    ELSE Parsed(inner.node, inner.pos + 1)

RECURSIVE parseOr(_, _), parseOrLoop(_, _), parseOrRight(_, _, _)
RECURSIVE parseAnd(_, _), parseAndLoop(_, _), parseAndRight(_, _, _)
RECURSIVE parseNot(_, _)

\* or_expr = and_expr ( "OR" and_expr )*
parseOr(tokens, pos) == parseOrLoop(tokens, parseAnd(tokens, pos))

\* The loop of parseOr, entered with the left operand parsed so far.
parseOrLoop(tokens, left) ==
    IF ~left.ok THEN left
    ELSE IF IsKeyword(peek(tokens, left.pos), "OR")
    THEN parseOrRight(tokens, left, parseAnd(tokens, left.pos + 1))
    ELSE left

\* One round of the loop of parseOr, after its right operand is parsed.
parseOrRight(tokens, left, right) ==
    IF ~right.ok THEN right
    ELSE parseOrLoop(tokens, Parsed(BinaryExpr("OR", left.node, right.node), right.pos))

\* and_expr = not_expr ( "AND" not_expr )*
parseAnd(tokens, pos) == parseAndLoop(tokens, parseNot(tokens, pos))

\* A loop of parseAnd that takes the whole rest of the conjunction as its
\* right operand.
parseAndLoopRight(tokens, left) ==
    IF ~left.ok THEN left
    ELSE IF IsKeyword(peek(tokens, left.pos), "AND")
    THEN parseAndRight(tokens, left, parseAnd(tokens, left.pos + 1))
    ELSE left

\* The loop of parseAnd, entered with the left operand parsed so far.
parseAndLoop(tokens, left) ==
    IF ~left.ok THEN left
    ELSE IF IsKeyword(peek(tokens, left.pos), "AND")
    THEN parseAndRight(tokens, left, parseNot(tokens, left.pos + 1))
    ELSE left

\* One round of the loop of parseAnd, after its right operand is parsed.
parseAndRight(tokens, left, right) ==
    IF ~right.ok THEN right
    ELSE parseAndLoop(tokens, Parsed(BinaryExpr("AND", left.node, right.node), right.pos))

\* not_expr = [ "NOT" ] comparison | "(" or_expr ")"
parseNot(tokens, pos) ==
    CASE IsKeyword(peek(tokens, pos), "NOT") -> notOf(parseNot(tokens, pos + 1))
      [] peek(tokens, pos).kind = "lparen" -> groupOf(tokens, parseOr(tokens, pos + 1))
      [] OTHER -> parseComparison(tokens, pos)

\* Parse after parseOr: trailing tokens are an error.
parseEnd(tokens, r) ==
    IF ~r.ok THEN r
    ELSE IF peek(tokens, r.pos).kind # "eof" THEN ParseError(r.pos)
    ELSE r

\* Parse after tokenize.
parseTokens(lexed) ==
    IF ~lexed.ok THEN ParseError(0) ELSE parseEnd(lexed.tokens, parseOr(lexed.tokens, 1))

\* Parse parses an expression string into an AST.
Parse(expr) == parseTokens(tokenize(expr))

\* ------------------------------------------------------------------------
\* Events and the field resolver (internal/event, internal/dag)
\* ------------------------------------------------------------------------

\* A mapping is a sequence of entries [k |-> key, v |-> value] with distinct keys.
Entry(k, v) == [k |-> k, v |-> v]

HasKey(m, key) == \E i \in DOMAIN m : m[i].k = key

Lookup(m, key) == m[CHOOSE i \in DOMAIN m : m[i].k = key].v

\* What a lookup returns: the value and whether it is present.
Found(v) == [ok |-> TRUE, value |-> v]

Absent == [ok |-> FALSE, value |-> NilV]

RECURSIVE resolveMap(_, _)
resolveMap(m, path) ==
    IF Len(path) = 0 THEN Absent
    ELSE IF ~HasKey(m, path[1]) THEN Absent
    ELSE LET val == Lookup(m, path[1])
         IN  IF Len(path) = 1 THEN Found(val)
             ELSE IF val.t # "map" THEN Absent
             ELSE resolveMap(val.m, Tail(path))

\* EvalContext.Resolve: walks a dot-separated path into the event's fields.
Resolve(ev, path) ==
    IF Len(path) = 0 THEN Absent
    ELSE CASE path[1] = "payload" -> resolveMap(ev.payload, Tail(path))
           [] path[1] = "meta" -> resolveMap(ev.meta, Tail(path))
           [] path[1] = "event" ->
                IF Len(path) < 2 THEN Absent
                ELSE CASE path[2] = "type" -> Found(StrV(ev.type))
                       [] path[2] = "source" -> Found(StrV(ev.source))
                       [] path[2] = "actor_id" -> Found(StrV(ev.actor_id))
                       [] path[2] = "id" -> Found(StrV(ev.id))
                       [] OTHER -> Absent
           [] OTHER -> Absent

\* ------------------------------------------------------------------------
\* Operators (internal/condition/operators.go)
\* ------------------------------------------------------------------------

\* What an evaluation returns: the boolean, and whether it ended without error.
Bool(b) == [ok |-> TRUE, val |-> b]

EvalError == [ok |-> FALSE, val |-> FALSE]

IsNumeric(v) == v.t = "num"

RECURSIVE NatString(_)
NatString(n) == IF n < 10 THEN Digits[n + 1] ELSE NatString(n \div 10) \o Digits[(n % 10) + 1]

\* fmt's %v of a float64 held in units of 1/Scale: no trailing zeros.
FormatNum(n) ==
    LET a == IF n < 0 THEN -n ELSE n
        whole == a \div Scale
        frac == a % Scale
        fracStr == IF frac = 0 THEN ""
                   ELSE IF frac % 10 = 0 THEN "." \o NatString(frac \div 10)
                   ELSE "." \o Digits[(frac \div 10) + 1] \o Digits[(frac % 10) + 1]
    IN  (IF n < 0 THEN "-" ELSE "") \o NatString(whole) \o fracStr

RECURSIVE Format(_), FormatEntries(_)
\* fmt.Sprintf("%v", v); a mapping prints its entries in key order, the
\* order in which the model's events hold them.
Format(v) ==
    CASE v.t = "str" -> v.s
      [] v.t = "num" -> FormatNum(v.n)
      [] v.t = "bool" -> IF v.b THEN "true" ELSE "false"
      [] v.t = "map" -> "map[" \o FormatEntries(v.m) \o "]"
      [] OTHER -> "<nil>"

FormatEntries(m) ==
    IF m = <<>> THEN ""
    ELSE m[1].k \o ":" \o Format(m[1].v)
         \o (IF Len(m) > 1 THEN " " ELSE "") \o FormatEntries(Tail(m))

\* equal: numeric operands by value (1e-9 is below the model's resolution),
\* booleans by identity when the left one is a boolean, else by %v.
equal(left, right) ==
    IF IsNumeric(left) /\ IsNumeric(right) THEN left.n = right.n
    ELSE IF left.t = "bool"
         THEN right.t = "bool" /\ left.b = right.b
         ELSE Format(left) = Format(right)

numericCompare(op, left, right) ==
    IF ~IsNumeric(left) \/ ~IsNumeric(right) THEN EvalError
    ELSE CASE op = ">" -> Bool(left.n > right.n)
           [] op = ">=" -> Bool(left.n >= right.n)
           [] op = "<" -> Bool(left.n < right.n)
           [] op = "<=" -> Bool(left.n <= right.n)
           [] OTHER -> Bool(FALSE)

contains(s, sub) ==
    /\ Len(s) >= Len(sub)
    /\ \/ s = sub
       \/ Len(sub) = 0
       \/ \E i \in 1..(Len(s) - Len(sub) + 1) : SubSeq(s, i, i + Len(sub) - 1) = sub

containsOp(left, right) ==
    IF left.t # "str" THEN EvalError
    ELSE Bool(contains(left.s, Format(right)))

RECURSIVE ParenDepthOk(_, _)
\* Whether every "(" of the pattern is closed and no ")" is unopened.
ParenDepthOk(cs, depth) ==
    IF cs = <<>> THEN depth = 0
    ELSE CASE Head(cs) = "(" -> ParenDepthOk(Tail(cs), depth + 1)
           [] Head(cs) = ")" -> depth > 0 /\ ParenDepthOk(Tail(cs), depth - 1)
           [] OTHER -> ParenDepthOk(Tail(cs), depth)

\* regexp.Compile succeeds.  The model's patterns are literals with the
\* anchors ^ and $ and the wildcard "."; of the syntax errors it knows
\* unbalanced parentheses and a leading repetition operator.
RegexCompiles(pattern) ==
    LET cs == Chars(pattern)
    IN  /\ ParenDepthOk(cs, 0)
        /\ ~(cs # <<>> /\ cs[1] \in {"*", "+", "?"})

RECURSIVE MatchHere(_, _)
\* Whether the pattern matches a prefix of the text.
MatchHere(pat, text) ==
    IF pat = <<>> THEN TRUE
    ELSE IF pat = <<"$">> THEN text = <<>>
    ELSE IF text = <<>> THEN FALSE
    ELSE (Head(pat) = "." \/ Head(pat) = Head(text)) /\ MatchHere(Tail(pat), Tail(text))

\* Regexp.MatchString: an unanchored search.
RegexMatch(pattern, s) ==
    LET pat == Chars(pattern)
        text == Chars(s)
    IN  IF pat # <<>> /\ pat[1] = "^"
        THEN MatchHere(Tail(pat), text)
        ELSE \E i \in 1..(Len(text) + 1) : MatchHere(pat, SubSeq(text, i, Len(text)))

matchesOp(left, right) ==
    IF left.t # "str" THEN EvalError
    ELSE IF right.t # "str" THEN EvalError
    ELSE IF ~RegexCompiles(right.s) THEN EvalError
    ELSE Bool(RegexMatch(right.s, left.s))

\* compare applies a binary comparison operator to two values.
compare(op, left, right) ==
    CASE op = "==" -> Bool(equal(left, right))
      [] op = "!=" -> Bool(~equal(left, right))
      [] op \in {">", ">=", "<", "<="} -> numericCompare(op, left, right)
      [] op = "contains" -> containsOp(left, right)
      [] op = "matches" -> matchesOp(left, right)
      [] OTHER -> EvalError

\* ------------------------------------------------------------------------
\* Condition evaluation (internal/condition)
\* ------------------------------------------------------------------------

resolveOperand(op, ev) ==
    CASE op.kind = "lit" -> Found(op.value)
      [] op.kind = "field" -> Resolve(ev, op.path)
      [] OTHER -> Absent

\* evalComparison once both operands are resolved.
compareResolved(op, left, right) ==
    IF ~left.ok THEN EvalError
    ELSE IF ~right.ok THEN EvalError
    ELSE compare(op, left.value, right.value)

evalComparison(e, ev) ==
    compareResolved(e.op, resolveOperand(e.left, ev), resolveOperand(e.right, ev))

\* An evalBinary that evaluates the right operand whatever the left one gave.
shortCircuitNever(op, left) ==
    CASE ~left.ok -> [decided |-> TRUE, result |-> EvalError]
      [] op \in {"AND", "OR"} -> [decided |-> FALSE, result |-> Bool(FALSE)]
      [] OTHER -> [decided |-> TRUE, result |-> EvalError]

\* evalBinary's switch on the upper-cased operator: the value when the left
\* operand decides it, else undecided (the right operand is then evaluated).
shortCircuit(op, left) ==
    CASE ~left.ok -> [decided |-> TRUE, result |-> EvalError]
      [] op = "AND" -> [decided |-> ~left.val, result |-> Bool(FALSE)]
      [] op = "OR" -> [decided |-> left.val, result |-> Bool(TRUE)]
      [] OTHER -> [decided |-> TRUE, result |-> EvalError]

\* Evaluate of a NotExpr once its operand is evaluated.
negate(v) == IF ~v.ok THEN EvalError ELSE Bool(~v.val)

RECURSIVE ConditionEvaluate(_, _), evalBinary(_, _, _)
\* condition.Evaluate walks the AST and returns true/false or an error.
ConditionEvaluate(expr, ev) ==
    CASE expr.kind = "binary" ->
            evalBinary(expr, ev, shortCircuit(StrToUpper(expr.op),
                                              ConditionEvaluate(expr.left, ev)))
      [] expr.kind = "not" -> negate(ConditionEvaluate(expr.expr, ev))
      [] expr.kind = "cmp" -> evalComparison(expr, ev)
      [] OTHER -> EvalError

\* evalBinary after the left operand: its result, or that of the right one.
evalBinary(expr, ev, short) ==
    IF short.decided THEN short.result ELSE ConditionEvaluate(expr.right, ev)

\* The call resolveOperand makes to ctx.Resolve: one for a field, none for a
\* literal.
operandResolves(op) == IF op.kind = "field" THEN <<op.path>> ELSE <<>>

RECURSIVE Resolves(_, _)
\* The paths condition.Evaluate hands to ctx.Resolve, in the order of the
\* calls: a comparison resolves its left operand and, unless that failed, its
\* right one; evalBinary evaluates its left operand and, unless the switch
\* returned, its right one.
Resolves(expr, ev) ==
    CASE expr.kind = "binary" ->
            Resolves(expr.left, ev)
                \o (IF shortCircuit(StrToUpper(expr.op),
                                    ConditionEvaluate(expr.left, ev)).decided
                    THEN <<>> ELSE Resolves(expr.right, ev))
      [] expr.kind = "not" -> Resolves(expr.expr, ev)
      [] expr.kind = "cmp" ->
            operandResolves(expr.left)
                \o (IF resolveOperand(expr.left, ev).ok
                    THEN operandResolves(expr.right) ELSE <<>>)
      [] OTHER -> <<>>

\* ------------------------------------------------------------------------
\* Rule documents and their validation (internal/config)
\* ------------------------------------------------------------------------

\* A NodeRef holds at most one ConditionDef and at most one ActionDef; an
\* unset pointer is the empty sequence.
ConditionRef(id, expression, children) ==
    [condition |-> <<[id |-> id, expression |-> expression, children |-> children]>>,
     action |-> <<>>]

ActionRef(id, type, params) ==
    [condition |-> <<>>, action |-> <<[id |-> id, type |-> type, params |-> params]>>]

Scenario(id, enabled, eventTypes, sources, children) ==
    [id |-> id, enabled |-> enabled, event_types |-> eventTypes,
     sources |-> sources, children |-> children]

\* An EngineConf as yaml.Unmarshal leaves it for a document that sets none of
\* its fields.
ZeroEngineConf ==
    [event_workers |-> 0, action_workers |-> 0, queue_depth |-> 0,
     event_timeout_ms |-> 0, fail_open |-> FALSE]

RuleConfig(version, scenarios) ==
    [version |-> version, engine |-> ZeroEngineConf, scenarios |-> scenarios]

\* Loader.load after yaml.Unmarshal: a setting that is zero gets its default.
applyDefaults(cfg) ==
    [cfg EXCEPT !.engine =
        [event_workers |-> IF @.event_workers = 0 THEN 32 ELSE @.event_workers,
         action_workers |-> IF @.action_workers = 0 THEN 16 ELSE @.action_workers,
         queue_depth |-> IF @.queue_depth = 0 THEN 10000 ELSE @.queue_depth,
         event_timeout_ms |-> IF @.event_timeout_ms = 0 THEN 5000 ELSE @.event_timeout_ms,
         fail_open |-> @.fail_open]]

\* An id check that records the id and never reports a duplicate.
NoteIdUnchecked(st, id) == [st EXCEPT !.ids = @ \cup {id}]

\* The id check shared by scenarios, conditions and actions: a duplicate is an
\* error, a first occurrence is recorded.
NoteId(st, id) ==
    IF id \in st.ids
    THEN [st EXCEPT !.errs = Append(@, <<"duplicate id", id>>)]
    ELSE [st EXCEPT !.ids = @ \cup {id}]

AddErr(st, cond, err) == IF cond THEN [st EXCEPT !.errs = Append(@, err)] ELSE st

RECURSIVE validateNodeRefs(_, _, _)
\* st = [ids, errs]; returns st after the refs from index j on.
validateNodeRefs(refs, j, st) ==
    IF j > Len(refs) THEN st
    ELSE
    LET ref == refs[j]
        hasC == ref.condition # <<>>
        hasA == ref.action # <<>>
        after ==
            CASE hasC /\ hasA -> AddErr(st, TRUE, <<"only one of condition/action", "">>)
              [] ~hasC /\ ~hasA -> AddErr(st, TRUE, <<"one of condition/action", "">>)
              [] hasC /\ ~hasA ->
                    LET c == ref.condition[1]
                    IN  IF c.id = "" THEN AddErr(st, TRUE, <<"id is required", "">>)
                        ELSE validateNodeRefs(c.children, 1,
                                 AddErr(NoteId(st, c.id), c.expression = "",
                                        <<"expression is required", c.id>>))
              [] OTHER ->
                    LET a == ref.action[1]
                    IN  IF a.id = "" THEN AddErr(st, TRUE, <<"id is required", "">>)
                        ELSE AddErr(NoteId(st, a.id), a.type = "",
                                    <<"type is required", a.id>>)
    IN  validateNodeRefs(refs, j + 1, after)

RECURSIVE validateScenarios(_, _, _)
validateScenarios(scenarios, i, st) ==
    IF i > Len(scenarios) THEN st
    ELSE
    LET sc == scenarios[i]
        after ==
            IF sc.id = "" THEN AddErr(st, TRUE, <<"id is required", "">>)
            ELSE validateNodeRefs(sc.children, 1,
                     AddErr(NoteId(st, sc.id), Len(sc.event_types) = 0,
                            <<"event_types must not be empty", sc.id>>))
    IN  validateScenarios(scenarios, i + 1, after)

\* The errors config.Validate reports; the document is valid iff there are none.
ValidateErrors(cfg) ==
    IF cfg.version = "" THEN <<<<"version is required", "">>>>
    ELSE validateScenarios(cfg.scenarios, 1, [ids |-> {}, errs |-> <<>>]).errs

Validate(cfg) == ValidateErrors(cfg) = <<>>

\* ------------------------------------------------------------------------
\* Graph and builder (internal/dag)
\* ------------------------------------------------------------------------

\* NewScenarioNode builds the lookup sets, lower-cased.
NewScenarioNode(id, eventTypes, sources) ==
    [kind |-> "scenario", id |-> id,
     eventTypes |-> {StrToLower(eventTypes[i]) : i \in DOMAIN eventTypes},
     sources |-> {StrToLower(sources[i]) : i \in DOMAIN sources}]

NewConditionNode(id, expr) == [kind |-> "condition", id |-> id, expr |-> expr]

NewActionNode(id, actionType, params) ==
    [kind |-> "action", id |-> id, actionType |-> actionType, params |-> params]

NewGraph == [nodes |-> <<>>, children |-> <<>>, roots |-> <<>>]

\* Graph.AddNode: registers a node by its id; a scenario node is also a root.
AddNode(g, n) ==
    [g EXCEPT !.nodes = [id \in DOMAIN g.nodes \cup {n.id} |->
                             IF id = n.id THEN n ELSE g.nodes[id]],
              !.roots = IF n.kind = "scenario" THEN Append(@, n) ELSE @]

\* Graph.Children: the direct successors of a node (none if it has no entry).
Children(g, id) == IF id \in DOMAIN g.children THEN g.children[id] ELSE <<>>

\* Graph.AddEdge: appends child to the successors of parentID.
AddEdge(g, parentID, child) ==
    [g EXCEPT !.children = [id \in DOMAIN g.children \cup {parentID} |->
                                IF id = parentID THEN Append(Children(g, parentID), child)
                                ELSE g.children[id]]]

Built(g) == [ok |-> TRUE, graph |-> g]

BuildError == [ok |-> FALSE, graph |-> NewGraph]

RECURSIVE buildChildren(_, _, _, _), buildChild(_, _, _, _, _)
RECURSIVE buildCondition(_, _, _, _, _, _), buildSiblings(_, _, _, _)
RECURSIVE buildUnder(_, _, _, _, _)

\* The refs from index j on, added under parentID; fails on a parse error.
buildChildren(g, parentID, refs, j) ==
    IF j > Len(refs) THEN Built(g) ELSE buildChild(g, parentID, refs, j, refs[j])

\* One round of buildChildren's loop, on the ref at index j.
buildChild(g, parentID, refs, j, ref) ==
    CASE ref.condition # <<>> ->
            buildCondition(g, parentID, refs, j, ref.condition[1],
                           Parse(ref.condition[1].expression))
      [] ref.action # <<>> ->
            buildUnder(g, parentID, refs, j,
                       NewActionNode(ref.action[1].id, ref.action[1].type,
                                     ref.action[1].params))
      [] OTHER -> buildChildren(g, parentID, refs, j + 1)

\* The condition case after condition.Parse: a parse error fails the build,
\* otherwise the node is added and its children are built under it.
buildCondition(g, parentID, refs, j, c, ast) ==
    IF ~ast.ok THEN BuildError
    ELSE buildSiblings(parentID, refs, j,
                       buildChildren(AddEdge(AddNode(g, NewConditionNode(c.id, ast.node)),
                                             parentID, NewConditionNode(c.id, ast.node)),
                                     c.id, c.children, 1))

\* After the subtree of the ref at index j: an error in it fails the build,
\* otherwise the loop goes on with the next ref.
buildSiblings(parentID, refs, j, sub) ==
    IF ~sub.ok THEN BuildError ELSE buildChildren(sub.graph, parentID, refs, j + 1)

\* The action case: the node is added as a leaf and the loop goes on.
buildUnder(g, parentID, refs, j, an) ==
    buildChildren(AddEdge(AddNode(g, an), parentID, an), parentID, refs, j + 1)

RECURSIVE buildScenarios(_, _, _), buildScenario(_, _, _, _), buildScenarioRest(_, _, _)
\* A loop over the scenarios that builds the disabled ones too.
buildScenariosAll(g, scenarios, i) ==
    IF i > Len(scenarios) THEN Built(g)
    ELSE buildScenario(scenarios, i,
                       scenarios[i],
                       AddNode(g, NewScenarioNode(scenarios[i].id, scenarios[i].event_types,
                                                  scenarios[i].sources)))

\* The loop of Build over the scenarios from index i on; disabled ones are
\* skipped.
buildScenarios(g, scenarios, i) ==
    IF i > Len(scenarios) THEN Built(g)
    ELSE IF ~scenarios[i].enabled THEN buildScenarios(g, scenarios, i + 1)
    ELSE buildScenario(scenarios, i,
                       scenarios[i],
                       AddNode(g, NewScenarioNode(scenarios[i].id, scenarios[i].event_types,
                                                  scenarios[i].sources)))

\* One enabled scenario: its root is in g; its children are built under it.
buildScenario(scenarios, i, sc, g) ==
    buildScenarioRest(scenarios, i, buildChildren(g, sc.id, sc.children, 1))

\* After the children of scenario i: an error fails the build.
buildScenarioRest(scenarios, i, sub) ==
    IF ~sub.ok THEN BuildError ELSE buildScenarios(sub.graph, scenarios, i + 1)

\* dag.Build constructs a graph from a rule document.
Build(cfg) == buildScenarios(NewGraph, cfg.scenarios, 1)

\* ------------------------------------------------------------------------
\* Evaluator (internal/dag)
\* ------------------------------------------------------------------------

\* A filter that compares the event's type and source as they are written.
ScenarioEvaluateAsWritten(n, ev) ==
    IF ev.type \notin n.eventTypes THEN Bool(FALSE)
    ELSE IF n.sources # {} /\ ev.source \notin n.sources THEN Bool(FALSE)
    ELSE Bool(TRUE)

\* ScenarioNode.Evaluate: the scenario's filter on the event's type and source.
ScenarioEvaluate(n, ev) ==
    IF StrToLower(ev.type) \notin n.eventTypes THEN Bool(FALSE)
    ELSE IF n.sources # {} /\ StrToLower(ev.source) \notin n.sources THEN Bool(FALSE)
    ELSE Bool(TRUE)

\* Node.Evaluate for the three node kinds; dag.Evaluate always allocates the
\* Results map, so an action node evaluates to true.
NodeEvaluate(n, ev) ==
    CASE n.kind = "scenario" -> ScenarioEvaluate(n, ev)
      [] n.kind = "condition" -> ConditionEvaluate(n.expr, ev)
      [] OTHER -> Bool(TRUE)

ActionMatch(scenarioID, node) == [scenarioID |-> scenarioID, node |-> node]

\* A traversal that returns at the first error instead of going on with the
\* siblings.
ConcatUntilError(a, b) ==
    IF a.errors # <<>> THEN a
    ELSE [results |-> a.results \o b.results, errors |-> b.errors]

\* A traversal that puts what the later siblings yield before what the child
\* yielded.
ConcatSiblingsFirst(a, b) ==
    [results |-> b.results \o a.results, errors |-> a.errors \o b.errors]

\* What a child yielded, followed by what its later siblings yield.
Concat(a, b) == [results |-> a.results \o b.results, errors |-> a.errors \o b.errors]

RECURSIVE dfs(_, _, _, _, _), visit(_, _, _, _, _)
\* The traversal of the children of parentID from index j on.  Returns the
\* action matches and the errors appended to ctx.Errors, each as the id of
\* the node that failed.
dfs(g, ev, parentID, scenarioID, j) ==
    IF j > Len(Children(g, parentID)) THEN [results |-> <<>>, errors |-> <<>>]
    ELSE Concat(visit(g, ev, scenarioID, Children(g, parentID)[j],
                      NodeEvaluate(Children(g, parentID)[j], ev)),
                dfs(g, ev, parentID, scenarioID, j + 1))

\* One round of dfs's loop: child has evaluated to r.  An error is recorded
\* and the child skipped, false skips it, a true action is a match, and a
\* true condition is descended into.
visit(g, ev, scenarioID, child, r) ==
    IF ~r.ok THEN [results |-> <<>>, errors |-> <<child.id>>]
    ELSE IF ~r.val THEN [results |-> <<>>, errors |-> <<>>]
    ELSE IF child.kind = "action"
    THEN [results |-> <<ActionMatch(scenarioID, child)>>, errors |-> <<>>]
    ELSE dfs(g, ev, child.id, scenarioID, 1)

\* A loop that lists every root whose filter passed, whether or not the
\* traversal below it yielded an action.
visitRootListPassed(root, passed, actions) ==
    IF ~passed THEN [matches |-> <<>>, scenariosMatched |-> <<>>, errors |-> <<>>]
    ELSE [matches |-> actions.results,
          scenariosMatched |-> <<root.id>>,
          errors |-> actions.errors]

\* Evaluate's loop, one root r whose Evaluate returned passed: its actions,
\* and its id if it yielded any.
visitRoot(root, passed, actions) ==
    IF ~passed THEN [matches |-> <<>>, scenariosMatched |-> <<>>, errors |-> <<>>]
    ELSE [matches |-> actions.results,
          scenariosMatched |-> IF Len(actions.results) > 0 THEN <<root.id>> ELSE <<>>,
          errors |-> actions.errors]

\* What the roots seen so far yielded, followed by what the rest yield.
ConcatRoots(a, b) ==
    [matches |-> a.matches \o b.matches,
     scenariosMatched |-> a.scenariosMatched \o b.scenariosMatched,
     errors |-> a.errors \o b.errors]

RECURSIVE EvaluateRoots(_, _, _)
\* The loop of dag.Evaluate over the roots from index i on.
EvaluateRoots(g, ev, i) ==
    IF i > Len(g.roots)
    THEN [matches |-> <<>>, scenariosMatched |-> <<>>, errors |-> <<>>]
    ELSE ConcatRoots(visitRoot(g.roots[i], ScenarioEvaluate(g.roots[i], ev).val,
                               dfs(g, ev, g.roots[i].id, g.roots[i].id, 1)),
                     EvaluateRoots(g, ev, i + 1))

\* dag.Evaluate after the loop: the first error of ctx.Errors is evalErr.
evaluated(r) ==
    [matches |-> r.matches,
     scenariosMatched |-> r.scenariosMatched,
     errors |-> r.errors,
     evalErr |-> IF Len(r.errors) > 0 THEN r.errors[1] ELSE ""]

\* dag.Evaluate: the matched actions, the matched scenario ids, and the
\* first error of ctx.Errors (evalErr; "" when there is none).
Evaluate(g, ev) == evaluated(EvaluateRoots(g, ev, 1))

RECURSIVE dfsDeeper(_, _, _, _)
\* dfs called for parentID descends more than n further levels: some child
\* evaluates to true, is no action, and the call of dfs for it descends more
\* than n - 1 levels.
dfsDeeper(g, ev, parentID, n) ==
    \E j \in DOMAIN Children(g, parentID) :
        /\ Children(g, parentID)[j].kind # "action"
        /\ NodeEvaluate(Children(g, parentID)[j], ev).ok
        /\ NodeEvaluate(Children(g, parentID)[j], ev).val
        /\ (n = 0 \/ dfsDeeper(g, ev, Children(g, parentID)[j].id, n - 1))

\* dfs never returns: below some root that passed its filter it descends through more levels than
\* the graph has parent ids, so it has been called twice for the same
\* parentID on one path, and what it did between the two calls it does again.
dfsUnbounded(g, ev) ==
    \E i \in DOMAIN g.roots :
        /\ ScenarioEvaluate(g.roots[i], ev).val
        /\ dfsDeeper(g, ev, g.roots[i].id, Cardinality(DOMAIN g.children))

\* ------------------------------------------------------------------------
\* Action registry and the reward_points action (internal/action)
\* ------------------------------------------------------------------------

\* The action types main registers at startup: reg.Register(points.New()).
Registry == {"reward_points"}

\* Registry.Get succeeds.
RegistryGet(actionType) == actionType \in Registry

\* params[key].(string): the string under key, "" if absent or not a string.
ParamString(params, key) ==
    IF HasKey(params, key) /\ Lookup(params, key).t = "str"
    THEN Lookup(params, key).s ELSE ""

\* RewardPointsAction.Validate accepts the params.
RewardPointsValidate(params) ==
    /\ ParamString(params, "operation") \in {"award", "deduct"}
    /\ HasKey(params, "points") \/ HasKey(params, "points_formula")

\* The executor's validate hook for an action type (reward_points is the only
\* executor there is).
ExecutorValidate(actionType, params) ==
    actionType = "reward_points" => RewardPointsValidate(params)

ActionResult(actionID, type, success, message) ==
    [action_id |-> actionID, type |-> type, success |-> success, message |-> message]

\* A float64 result or an error with its message.
Num(n) == [ok |-> TRUE, n |-> n, msg |-> ""]

NumError(msg) == [ok |-> FALSE, n |-> 0, msg |-> msg]

\* p / q rounded to the nearest integer, halves away from zero (math.Round).
RoundDiv(p, q) ==
    LET neg == (p < 0) # (q < 0)
        ap == IF p < 0 THEN -p ELSE p
        aq == IF q < 0 THEN -q ELSE q
        r == (2 * ap + aq) \div (2 * aq)
    IN  IF neg THEN -r ELSE r

\* resolveNumericOperand, the field case after ctx.Resolve.
fieldNumber(val) ==
    IF ~val.ok THEN NumError("field not found")
    ELSE IF IsNumeric(val.value) THEN Num(val.value.n)
    ELSE NumError("field value is not numeric")

resolveNumericOperand(op, ev) ==
    CASE op.kind = "lit" ->
            IF IsNumeric(op.value) THEN Num(op.value.n) ELSE NumError("literal is not numeric")
      [] op.kind = "field" -> fieldNumber(Resolve(ev, op.path))
      [] OTHER -> NumError("unknown operand type")

\* evalNumericExpr once both operands are resolved: one arithmetic operator.
\* The product and the quotient are held to 1/Scale, the resolution Execute
\* rounds to.
arithmetic(op, left, right) ==
    IF ~left.ok THEN left
    ELSE IF ~right.ok THEN right
    ELSE CASE op = "*" -> Num(RoundDiv(left.n * right.n, Scale))
           [] op = "/" ->
                IF right.n = 0 THEN NumError("division by zero in points_formula")
                ELSE Num(RoundDiv(left.n * Scale, right.n))
           [] op = "+" -> Num(left.n + right.n)
           [] op = "-" -> Num(left.n - right.n)
           [] OTHER -> NumError("unsupported operator in points_formula")

\* evalNumericExpr: only a comparison node, read as operand operator operand.
evalNumericExpr(expr, ev) ==
    IF expr.kind # "cmp" THEN NumError("unsupported expression type in points_formula")
    ELSE arithmetic(expr.op, resolveNumericOperand(expr.left, ev),
                    resolveNumericOperand(expr.right, ev))

\* resolvePoints, the formula case after evalNumericExpr.
formulaValue(val) ==
    IF ~val.ok THEN NumError("points_formula eval error: " \o val.msg) ELSE val

\* resolvePoints, the formula case after condition.Parse.
formulaPoints(ast, ev) ==
    IF ~ast.ok THEN NumError("points_formula parse error")
    ELSE formulaValue(evalNumericExpr(ast.node, ev))

\* resolvePoints: the point value from a formula or a fixed param.
resolvePoints(params, ev) ==
    IF ParamString(params, "points_formula") # ""
    THEN formulaPoints(Parse(ParamString(params, "points_formula")), ev)
    ELSE IF HasKey(params, "points") /\ IsNumeric(Lookup(params, "points"))
    THEN Num(Lookup(params, "points").n)
    ELSE NumError("cannot resolve points value")

\* capitalize: s[0]-32 is the upper-case letter of a lower-case one; of any
\* other byte it is no letter ("?" here).
capitalize(s) ==
    IF s = "" THEN s
    ELSE LET cs == Chars(s)
         IN  (IF cs[1] \in Range(Lower) THEN ToUpperCh(cs[1]) ELSE "?") \o Join(Tail(cs))

\* fmt's %.0f of a value in units of 1/Scale: to the nearest integer, halves
\* to even.
FormatRounded(n) ==
    LET a == IF n < 0 THEN -n ELSE n
        whole == a \div Scale
        rem == a % Scale
        r == IF 2 * rem > Scale \/ (2 * rem = Scale /\ whole % 2 = 1) THEN whole + 1 ELSE whole
    IN  (IF n < 0 /\ r > 0 THEN "-" ELSE "") \o NatString(r)

\* The message of a successful Execute.
pointsMessage(op, n, actor, reason) ==
    capitalize(op) \o "ed " \o FormatRounded(n) \o " points to " \o actor
    \o (IF reason # "" THEN " - " \o reason ELSE "")

\* Execute after resolvePoints.
executePoints(actionID, params, ev, pts) ==
    IF ~pts.ok
    THEN [res |-> ActionResult(actionID, "reward_points", FALSE, pts.msg),
          err |-> TRUE, recorded |-> <<>>]
    ELSE [res |-> ActionResult(actionID, "reward_points", TRUE,
                               pointsMessage(ParamString(params, "operation"), pts.n,
                                             ev.actor_id, ParamString(params, "reason"))),
          err |-> FALSE,
          recorded |-> <<Entry(actionID, NumV(pts.n))>>]

\* RewardPointsAction.Execute: the result, whether it came with an error, and
\* the entry recorded in evalCtx.Results (nothing reads that map).
RewardPointsExecute(actionID, params, ev) ==
    executePoints(actionID, params, ev, resolvePoints(params, ev))

\* runAction after exec.Execute: the result and the status label.
executed(r) ==
    [res |-> r.res, status |-> IF r.err \/ ~r.res.success THEN "error" ELSE "success"]

\* Engine.runAction: the action result and the status label under which
\* ActionsExecuted is incremented.
runAction(m, ev) ==
    IF ~RegistryGet(m.node.actionType)
    THEN [res |-> ActionResult(m.node.id, m.node.actionType, FALSE,
                               "no executor registered for action type"),
          status |-> "error"]
    ELSE executed(RewardPointsExecute(m.node.id, m.node.params, ev))

\* ------------------------------------------------------------------------
\* The rule files and the events of the model
\* ------------------------------------------------------------------------

AwardFormula ==
    <<Entry("operation", StrV("award")),
      Entry("points_formula", StrV("payload.amount * 0.05")),
      Entry("reason", StrV("High-value food purchase bonus"))>>

DivideFormula ==
    <<Entry("operation", StrV("award")),
      Entry("points_formula", StrV("payload.amount / payload.items"))>>

DeductFixed == <<Entry("operation", StrV("deduct")), Entry("points", NumV(10 * Scale))>>

\* The children of scenario sc_food_high: the README's high-value food rule,
\* followed by branches whose conditions can fail on an event.
FoodChildren ==
    <<ConditionRef("c_food", "payload.category == \"food\"",
          <<ConditionRef("c_high", "payload.amount > 1000",
                <<ActionRef("a_bonus", "reward_points", AwardFormula),
                  ActionRef("a_ratio", "reward_points", DivideFormula),
                  ActionRef("a_notify", "notify", <<>>),
                  ActionRef("a_fee", "reward_points", DeductFixed)>>)>>),
      ConditionRef("c_tier", "payload.tier matches \"^gold(\"",
          <<ActionRef("a_tier", "reward_points", DeductFixed)>>),
      ConditionRef("c_items", "payload.items >= 0",
          <<ActionRef("a_items", "reward_points", DeductFixed)>>)>>

LoginChildren ==
    <<ConditionRef("c_first", "payload.is_first_login == true",
          <<ActionRef("a_welcome", "reward_points",
                <<Entry("operation", StrV("award")), Entry("points", NumV(100 * Scale)),
                  Entry("reason", StrV("Welcome bonus"))>>)>>)>>

RulesWith(foodEnabled, foodChildren, policyChildren) ==
    RuleConfig("1.0",
        <<Scenario("sc_food_high", foodEnabled, <<"transaction">>, <<"pos-system">>,
                   foodChildren),
          Scenario("sc_any", TRUE, <<"transaction", "login">>, <<>>, policyChildren)>>)

\* A file on disk: a rule document, or text that is not YAML (load fails).
\* cfg is what yaml.Unmarshal makes of the text, settings the names of the
\* engine settings the text holds.
File(cfg) == [yaml |-> TRUE, cfg |-> cfg, settings |-> {}]

FileBroken == [yaml |-> FALSE, cfg |-> RuleConfig("", <<>>), settings |-> {}]

FileBase == File(RulesWith(TRUE, FoodChildren, LoginChildren))

\* The same rules with sc_food_high switched off.
FileDisabled == File(RulesWith(FALSE, FoodChildren, LoginChildren))

\* Rejected by config.Validate: the id a_welcome is used twice.
FileDuplicate ==
    File(RulesWith(TRUE, FoodChildren,
                   LoginChildren \o <<ActionRef("a_welcome", "reward_points", DeductFixed)>>))

\* Condition c_first has a child condition with the same id c_first.
FileCycle ==
    File(RulesWith(TRUE, FoodChildren,
                   <<ConditionRef("c_first", "payload.is_first_login == true",
                                  LoginChildren)>>))

\* Valid, but condition c_bad does not parse.
FileUnparsable ==
    File(RulesWith(TRUE, FoodChildren,
                   <<ConditionRef("c_bad", "payload.amount >", <<>>)>>))

\* Valid and parsable, but the params of a_bogus name no known operation.
FileBadParams ==
    File(RulesWith(TRUE, FoodChildren,
                   <<ActionRef("a_bogus", "reward_points",
                         <<Entry("operation", StrV("multiply")),
                           Entry("points", NumV(Scale))>>)>>))

\* Valid and parsable: the params of a_both hold a fixed amount and a formula,
\* those of a_none neither.
FileBothParams ==
    File(RulesWith(TRUE, FoodChildren,
                   <<ActionRef("a_both", "reward_points",
                         <<Entry("operation", StrV("award")),
                           Entry("points", NumV(10 * Scale)),
                           Entry("points_formula", StrV("payload.amount * 0.05"))>>)>>))

FileNoPoints ==
    File(RulesWith(TRUE, FoodChildren,
                   <<ActionRef("a_none", "reward_points",
                         <<Entry("operation", StrV("deduct"))>>)>>))

\* Conditions that combine three comparisons with and without parentheses.
PrecedenceChildren ==
    <<ConditionRef("p_or_and", "payload.a > 1 OR payload.b > 2 AND payload.c > 3", <<>>),
      ConditionRef("p_not_and", "NOT payload.a > 1 and payload.b > 2", <<>>),
      ConditionRef("p_and_and", "payload.a > 1 AND payload.b > 2 AND payload.c > 3", <<>>),
      ConditionRef("p_or_or", "payload.a > 1 or payload.b > 2 OR payload.c > 3", <<>>),
      ConditionRef("p_group", "(payload.a > 1 OR payload.b > 2) AND payload.c > 3", <<>>),
      ConditionRef("p_right", "payload.a > 1 AND (payload.b > 2 AND payload.c > 3)", <<>>),
      ConditionRef("p_not_group", "not (payload.a > 1 OR NOT payload.b > 2)", <<>>)>>

FilePrecedence == File(RulesWith(FALSE, FoodChildren, PrecedenceChildren))

\* Valid, but tokens follow the complete expression of c_more.
FileTrailing ==
    File(RulesWith(FALSE, FoodChildren,
                   <<ConditionRef("c_more", "payload.a > 1 payload.b", <<>>)>>))

FileUnclosed ==
    File(RulesWith(FALSE, FoodChildren,
                   <<ConditionRef("c_open", "(payload.a > 1 OR payload.b > 2", <<>>)>>))

\* Conditions whose operators are a single = and a lone !.
FileOperators ==
    File(RulesWith(FALSE, FoodChildren,
                   <<ConditionRef("c_assign", "payload.a = 1", <<>>),
                     ConditionRef("c_bang", "payload.b ! 2", <<>>)>>))

\* Conditions that compare a boolean field with the text of a boolean, in
\* both operand orders, and with a boolean.
EqualityChildren ==
    <<ConditionRef("c_bool_str", "payload.is_first_login == \"true\"",
          <<ActionRef("a_bool_str", "reward_points", DeductFixed)>>),
      ConditionRef("c_str_bool", "\"true\" == payload.is_first_login",
          <<ActionRef("a_str_bool", "reward_points", DeductFixed)>>),
      ConditionRef("c_not_text", "payload.is_first_login != \"true\"",
          <<ActionRef("a_not_text", "reward_points", DeductFixed)>>),
      ConditionRef("c_bool_bool", "payload.is_first_login == true",
          <<ActionRef("a_bool_bool", "reward_points", DeductFixed)>>)>>

FileEquality == File(RulesWith(TRUE, FoodChildren, EqualityChildren))

\* A condition whose operator is arithmetic.
FileArithmetic ==
    File(RulesWith(TRUE, FoodChildren,
                   <<ConditionRef("c_times", "payload.amount * 2",
                         <<ActionRef("a_times", "reward_points", DeductFixed)>>)>>))

\* The README's formulas: a share of an amount, and of a quantity times a
\* unit price.
BasketChildren ==
    <<ActionRef("a_share", "reward_points",
          <<Entry("operation", StrV("award")),
            Entry("points_formula", StrV("payload.quantity * 0.05"))>>),
      ActionRef("a_basket", "reward_points",
          <<Entry("operation", StrV("award")),
            Entry("points_formula", StrV("payload.quantity * payload.unit_price * 0.02"))>>)>>

FileBasket == File(RulesWith(TRUE, FoodChildren, BasketChildren))

\* Conditions whose right operand reads a field no event has, and an action
\* without a condition.
AuditChildren ==
    <<ConditionRef("c_and", "payload.amount < 1000 AND payload.absent == 1",
          <<ActionRef("a_and", "reward_points", DeductFixed)>>),
      ConditionRef("c_or", "payload.amount > 1000 or payload.absent == 1",
          <<ActionRef("a_or", "reward_points", DeductFixed)>>),
      ActionRef("a_audit", "reward_points", DeductFixed)>>

\* Valid: the food scenario's header is written in capitals, and sc_any
\* gains conditions with AND and OR and an action that every event it
\* accepts triggers.
FileAudit ==
    File(RuleConfig("1.0",
        <<Scenario("sc_food_high", TRUE, <<"TRANSACTION">>, <<"POS-System">>, FoodChildren),
          Scenario("sc_any", TRUE, <<"transaction", "login">>, <<>>,
                   LoginChildren \o AuditChildren)>>))

\* A child that sets both condition and action, and one that sets neither.
BothRef ==
    [condition |-> <<[id |-> "c_both", expression |-> "payload.amount > 1", children |-> <<>>]>>,
     action |-> <<[id |-> "a_both", type |-> "reward_points", params |-> DeductFixed]>>]

NeitherRef == [condition |-> <<>>, action |-> <<>>]

\* A scenario with one condition over one action, all well formed.
PlainScenario(id, enabled, suffix) ==
    Scenario(id, enabled, <<"transaction">>, <<>>,
             <<ConditionRef("c_" \o suffix, "payload.amount > 1",
                   <<ActionRef("a_" \o suffix, "reward_points", DeductFixed)>>)>>)

\* Documents that each break one rule of config.Validate: no version; a
\* scenario, a condition, an action without id; an id of a disabled scenario
\* used again by a condition; no event types; no expression; no action
\* type; a child with both, and with neither, of condition and action.
InvalidFiles ==
    {File(RuleConfig("", <<PlainScenario("sc_a", TRUE, "a")>>)),
     File(RuleConfig("1.0", <<PlainScenario("", TRUE, "a")>>)),
     File(RuleConfig("1.0", <<Scenario("sc_a", TRUE, <<"transaction">>, <<>>,
                                       <<ConditionRef("", "payload.amount > 1", <<>>)>>)>>)),
     File(RuleConfig("1.0", <<Scenario("sc_a", TRUE, <<"transaction">>, <<>>,
                                       <<ActionRef("", "reward_points", DeductFixed)>>)>>)),
     File(RuleConfig("1.0", <<PlainScenario("sc_a", FALSE, "a"),
                              Scenario("sc_b", TRUE, <<"transaction">>, <<>>,
                                       <<ConditionRef("sc_a", "payload.amount > 1", <<>>)>>)>>)),
     File(RuleConfig("1.0", <<Scenario("sc_a", TRUE, <<>>, <<>>, <<>>)>>)),
     File(RuleConfig("1.0", <<Scenario("sc_a", TRUE, <<"transaction">>, <<>>,
                                       <<ConditionRef("c_a", "", <<>>)>>)>>)),
     File(RuleConfig("1.0", <<Scenario("sc_a", TRUE, <<"transaction">>, <<>>,
                                       <<ActionRef("a_a", "", DeductFixed)>>)>>)),
     File(RuleConfig("1.0", <<Scenario("sc_a", TRUE, <<"transaction">>, <<>>, <<BothRef>>)>>)),
     File(RuleConfig("1.0", <<Scenario("sc_a", TRUE, <<"transaction">>, <<>>,
                                       <<ConditionRef("c_a", "payload.amount > 1",
                                             <<NeitherRef>>)>>)>>))}

\* Documents that break several rules at once: no version and an id used
\* twice; and, with a version, a scenario without event types, a condition
\* without expression, an action without type and an id used twice.
FileNoVersionAndMore ==
    File(RuleConfig("", <<PlainScenario("sc_a", TRUE, "a"), PlainScenario("sc_a", TRUE, "b")>>))

FileManyViolations ==
    File(RuleConfig("1.0",
        <<Scenario("sc_a", TRUE, <<>>, <<>>,
                   <<ConditionRef("c_a", "", <<ActionRef("a_a", "", DeductFixed)>>),
                     ActionRef("c_a", "reward_points", DeductFixed)>>)>>))

\* The base rules with every engine setting written out, and with only the
\* queue depth and fail_open: false.
FileTuned ==
    [File([FileBase.cfg EXCEPT !.engine =
              [event_workers |-> 4, action_workers |-> 2, queue_depth |-> 8,
               event_timeout_ms |-> 250, fail_open |-> TRUE]])
        EXCEPT !.settings = DOMAIN ZeroEngineConf]

FileFailClosed ==
    [File([FileBase.cfg EXCEPT !.engine = [ZeroEngineConf EXCEPT !.queue_depth = 8]])
        EXCEPT !.settings = {"queue_depth", "fail_open"}]

Files ==
    {FileBase, FileDisabled, FileDuplicate, FileUnparsable, FileBadParams, FileBroken,
     FileAudit, FileNoVersionAndMore, FileManyViolations, FileTuned, FileFailClosed,
     FileBothParams, FileNoPoints, FileBasket, FilePrecedence, FileTrailing,
     FileUnclosed, FileOperators, FileArithmetic, FileEquality, FileCycle}
        \cup InvalidFiles

NatToId(prefix, n) == prefix \o NatString(n)

\* The events a client submits: the README's high-value food purchase, a
\* purchase below the threshold, a purchase whose payload lacks or mistypes
\* the fields the conditions read, the README's purchase made through another
\* channel, an event without a type, and a first login.
EventKinds == {"food", "small", "odd", "online", "untyped", "basket", "login"}

EventOf(kind, id) ==
    LET base == [id |-> id, type |-> "transaction", source |-> "pos-system",
                 actor_id |-> "user_42", payload |-> <<>>, meta |-> <<>>]
    IN  CASE kind = "food" ->
                [base EXCEPT !.payload = <<Entry("amount", NumV(1500 * Scale)),
                                            Entry("category", StrV("food")),
                                            Entry("items", NumV(0)),
                                            Entry("tier", StrV("gold"))>>]
          [] kind = "small" ->
                [base EXCEPT !.type = "Transaction", !.source = "POS-System",
                             !.payload = <<Entry("amount", NumV(500 * Scale)),
                                            Entry("category", StrV("food")),
                                            Entry("items", NumV(3 * Scale)),
                                            Entry("tier", NumV(Scale))>>]
          [] kind = "online" ->
                [base EXCEPT !.source = "web",
                             !.payload = <<Entry("amount", NumV(1500 * Scale)),
                                            Entry("category", StrV("food")),
                                            Entry("items", NumV(0)),
                                            Entry("tier", StrV("gold"))>>]
          [] kind = "untyped" -> [base EXCEPT !.type = ""]
          [] kind = "basket" ->
                [base EXCEPT !.payload = <<Entry("category", StrV("grocery")),
                                            Entry("quantity", NumV(3 * Scale)),
                                            Entry("unit_price", NumV(20 * Scale))>>]
          [] kind = "odd" ->
                [base EXCEPT !.payload = <<Entry("category", StrV("food")),
                                            Entry("items", StrV("many"))>>]
          [] OTHER ->
                [base EXCEPT !.type = "login", !.source = "web",
                             !.actor_id = "new_user_99",
                             !.payload = <<Entry("is_first_login", BoolV(TRUE))>>]

\* ------------------------------------------------------------------------
\* The engine, its clients, the loader and main as a state machine
\* ------------------------------------------------------------------------

\* Bounds of the model.
QueueDepth == 1

MaxEvents == 2

MaxEdits == 1

MaxReloads == 1

\* The events that saturate an engine with one worker: one to keep the
\* worker busy, QueueDepth to fill the queue, and one more.
SaturatingEvents == QueueDepth + 2

\* ProcessSync's result channel: make(chan *EventResult, 1).
ResultSlots == 1

\* The most events a batch request may hold (100 in the program).
maxBatchSize == 2

Workers == {"w1", "w2"}

ActionWorkers == {"aw1"}

Callers == {"c1", "c2"}

VARIABLES
    env,        \* what the environment may still do (see Environments)
    graphs,     \* the graphs allocated so far, in the order they were stored
    graph,      \* Engine.graph: the atomic pointer, an index into graphs
    queue,      \* eventPool.queue: the buffered channel of eventWork
    closed,     \* eventPool.queue has been closed
    aclosed,    \* actionPool.queue has been closed
    ctxDone,    \* the engine context has been cancelled
    worker,     \* the event pool's goroutines
    aworker,    \* the action pool's goroutines
    caller,     \* the requests in flight, one per client
    resultC,    \* the result channel of every sync submission, by event id
    metrics,    \* the Prometheus counters
    nextId,     \* the number of events ingested so far
    disk,       \* the rule file
    fsEvents,   \* fsnotify events not yet received by the watcher
    current,    \* Loader.current
    watcher,    \* the goroutine started by Loader.Watch
    reloader,   \* a POST /v1/rules/reload request
    mainPc,     \* where main is
    accepted,   \* history: ids of the events enqueued before shutdown began
    finished    \* history: ids of the events a worker has processed

vars == <<env, graphs, graph, queue, closed, aclosed, ctxDone, worker, aworker,
          caller, resultC, metrics, nextId, disk, fsEvents, current, watcher,
          reloader, mainPc, accepted, finished>>

loaderVars == <<disk, fsEvents, current, watcher, reloader>>

\* The environment of a run: how many events clients submit, of which kinds
\* and through which call, how often the rule file is written and with which
\* contents, how many reload requests arrive, and whether the shutdown
\* signal may arrive; and which of the pool's goroutines the configured
\* event_workers starts (all of them unless stated otherwise), and how many
\* events a batch request may hold (one unless stated otherwise).
Environment(events, kinds, modes, edits, files, reloads, shutdown) ==
    [events |-> events, kinds |-> kinds, modes |-> modes, edits |-> edits,
     files |-> files, reloads |-> reloads, shutdown |-> shutdown,
     workers |-> Workers, batches |-> {1}, start |-> FileBase]

NoEvent == EventOf("login", "")

\* An eventWork: the event, whether it carries a result channel, and
\* (history) the graph pointer at the time it was submitted.
NoWork == [ev |-> NoEvent, sync |-> FALSE, seen |-> 0]

NoResult == [event_id |-> "", scenarios_matched |-> <<>>, actions_executed |-> <<>>,
             error |-> ""]

IdleWorker == [pc |-> "idle", job |-> NoWork, g |-> 0, result |-> NoResult]

\* What a call hands back to its caller: for ProcessSync a result or one of
\* the three errors, for ProcessAsync true or false.
Signal(kind, res) == [kind |-> kind, res |-> res]

\* A request handler: where it is, the call it makes, the event it is
\* submitting and what the call handed back; for a batch also the kind of
\* its events, their number, how many it has come to, how many ProcessAsync
\* accepted, and (history) the ids it gave them.
IdleCaller ==
    [pc |-> "idle", sync |-> FALSE, ev |-> NoEvent, signals |-> <<>>,
     kind |-> "", total |-> 0, sent |-> 0, queued |-> 0, ids |-> {}]

IdleReload == [pc |-> "idle", cfg |-> RuleConfig("", <<>>), status |-> 0]

\* The process runs: main has not returned and no goroutine has exhausted its
\* stack (a fatal error of the runtime, which ends the process).
Running == mainPc # "exited" /\ \A w \in DOMAIN worker : worker[w].pc # "overflow"

\* A counter vector's child with the given labels, incremented.
IncLabel(vec, labels) ==
    [l \in DOMAIN vec \cup {labels} |->
        IF l = labels THEN (IF labels \in DOMAIN vec THEN vec[labels] ELSE 0) + 1
        ELSE vec[l]]

RECURSIVE IncLabels(_, _)
IncLabels(vec, seq) ==
    IF seq = <<>> THEN vec ELSE IncLabels(IncLabel(vec, Head(seq)), Tail(seq))

\* main up to engine.New, in a given environment: the initial load,
\* validation and build succeed.
InitIn(environment) ==
    /\ env = environment
    /\ disk = environment.start
    /\ current = applyDefaults(environment.start.cfg)
    /\ graphs = <<Build(environment.start.cfg).graph>>
    /\ graph = 1
    /\ queue = <<>>
    /\ closed = FALSE
    /\ aclosed = FALSE
    /\ ctxDone = FALSE
    /\ worker = [w \in Workers |-> IF w \in environment.workers THEN IdleWorker
                                    ELSE [IdleWorker EXCEPT !.pc = "stopped"]]
    /\ aworker = [w \in ActionWorkers |-> "idle"]
    /\ caller = [c \in Callers |-> IdleCaller]
    /\ resultC = <<>>
    /\ metrics = [enqueued |-> 0, processed |-> 0, dropped |-> 0,
                  scenarios |-> <<>>, actions |-> <<>>]
    /\ nextId = 0
    /\ fsEvents = 0
    /\ watcher = IdleReload
    /\ reloader = IdleReload
    /\ mainPc = "serving"
    /\ accepted = {}
    /\ finished = {}

\* The engine's configuration snapshot: main hands engine.New the Engine
\* section of the configuration it loaded at startup.
conf == applyDefaults(env.start.cfg).engine

\* ---- Engine.SwapGraph ---------------------------------------------------

\* SwapGraph atomically stores the pointer to a newly built graph.
SwapGraph(g) ==
    /\ graphs' = Append(graphs, g)
    /\ graph' = Len(graphs) + 1

\* ---- Ingress and Engine.ProcessSync / Engine.ProcessAsync ----------------

\* ingestEvent up to the call of ProcessSync (which allocates the result
\* channel): an event without a type is answered with 400 and goes no
\* further.
ingestEvent(c, kind) ==
    /\ env.events > 0
    /\ env' = [env EXCEPT !.events = @ - 1]
    /\ IF EventOf(kind, "").type = ""
       THEN /\ caller' = [caller EXCEPT ![c] = [IdleCaller EXCEPT !.pc = "refused",
                                                                  !.sync = TRUE,
                                                                  !.kind = kind]]
            /\ UNCHANGED <<nextId, resultC>>
       ELSE /\ nextId' = nextId + 1
            /\ caller' = [caller EXCEPT ![c] =
                              [IdleCaller EXCEPT !.pc = "submit", !.sync = TRUE,
                                                 !.ev = EventOf(kind, NatToId("e", nextId + 1)),
                                                 !.kind = kind]]
            /\ resultC' = [i \in DOMAIN resultC \cup {NatToId("e", nextId + 1)} |->
                              IF i = NatToId("e", nextId + 1) THEN <<>> ELSE resultC[i]]

\* ingestBatch up to the first call of ProcessAsync, for a batch of n events
\* of one kind: an empty batch and one over maxBatchSize are answered with
\* 400; otherwise the loop starts with the first event.
ingestBatch(c, kind, n) ==
    /\ env.events >= n /\ env.events > 0
    /\ env' = [env EXCEPT !.events = IF n = 0 THEN @ - 1 ELSE @ - n]
    /\ UNCHANGED resultC
    /\ IF n = 0 \/ n > maxBatchSize
       THEN /\ caller' = [caller EXCEPT ![c] = [IdleCaller EXCEPT !.pc = "refused",
                                                                  !.kind = kind,
                                                                  !.total = n]]
            /\ UNCHANGED nextId
       ELSE /\ nextId' = nextId + 1
            /\ caller' = [caller EXCEPT ![c] =
                              [IdleCaller EXCEPT !.pc = "submit",
                                                 !.ev = EventOf(kind, NatToId("e", nextId + 1)),
                                                 !.kind = kind, !.total = n, !.sent = 1,
                                                 !.ids = {NatToId("e", nextId + 1)}]]

\* A request arrives: POST /v1/events (sync) or POST /v1/events/batch.  The
\* server accepts requests until main shuts it down.
Ingest(c, kind, sync) ==
    /\ Running /\ mainPc = "serving"
    /\ caller[c].pc \in {"idle", "returned", "panicked", "refused"}
    /\ kind \in env.kinds /\ sync \in env.modes
    /\ IF sync THEN ingestEvent(c, kind)
       ELSE \E n \in env.batches : ingestBatch(c, kind, n)
    /\ UNCHANGED <<graphs, graph, queue, closed, aclosed, ctxDone, worker, aworker,
                   metrics, mainPc, accepted, finished>>
    /\ UNCHANGED loaderVars

\* ingestBatch's loop goes on to its next event after ProcessAsync returned.
ingestBatchNext(c) ==
    /\ Running
    /\ caller[c].pc = "next"
    /\ nextId' = nextId + 1
    /\ caller' = [caller EXCEPT ![c].pc = "submit",
                                ![c].ev = EventOf(caller[c].kind, NatToId("e", nextId + 1)),
                                ![c].signals = <<>>,
                                ![c].sent = @ + 1,
                                ![c].ids = @ \cup {NatToId("e", nextId + 1)}]
    /\ UNCHANGED <<env, graphs, graph, queue, closed, aclosed, ctxDone, worker, aworker,
                   resultC, metrics, mainPc, accepted, finished>>
    /\ UNCHANGED loaderVars

\* workerPool.Submit: a non-blocking send.  A send on the closed queue
\* panics: the call unwinds without returning anything to its caller (the
\* HTTP server recovers a handler's panic and drops the connection).
Submit(c) ==
    /\ Running
    /\ caller[c].pc = "submit"
    /\ IF closed
       THEN /\ caller' = [caller EXCEPT ![c].pc = "panicked"]
            /\ UNCHANGED <<queue, accepted>>
       ELSE /\ IF Len(queue) < QueueDepth
               THEN /\ queue' = Append(queue, [ev |-> caller[c].ev,
                                               sync |-> caller[c].sync,
                                               seen |-> graph])
                    /\ caller' = [caller EXCEPT ![c].pc = "accepted"]
                    /\ accepted' = IF mainPc = "serving"
                                   THEN accepted \cup {caller[c].ev.id}
                                   ELSE accepted
               ELSE /\ caller' = [caller EXCEPT ![c].pc = "rejected"]
                    /\ UNCHANGED <<queue, accepted>>
    /\ UNCHANGED <<env, graphs, graph, closed, aclosed, ctxDone, worker, aworker,
                   resultC, metrics, nextId, mainPc, finished>>
    /\ UNCHANGED loaderVars

\* Submit returned false: EventsDropped.Inc, then ProcessSync returns the
\* queue-full error and ProcessAsync returns false; ingestBatch goes on with
\* its loop, or answers after its last event.
SubmitRejected(c) ==
    /\ Running
    /\ caller[c].pc = "rejected"
    /\ metrics' = [metrics EXCEPT !.dropped = @ + 1]
    /\ caller' = [caller EXCEPT ![c].pc = IF caller[c].sent < caller[c].total
                                          THEN "next" ELSE "returned",
                                ![c].signals =
                                    Append(@, Signal(IF caller[c].sync THEN "queue full"
                                                     ELSE "false", NoResult))]
    /\ UNCHANGED <<env, graphs, graph, queue, closed, aclosed, ctxDone, worker,
                   aworker, resultC, nextId, mainPc, accepted, finished>>
    /\ UNCHANGED loaderVars

\* Submit returned true: EventsEnqueued.Inc; ProcessSync goes on to its
\* select; ProcessAsync returns true, ingestBatch counts the event as queued
\* and goes on with its loop, or answers after its last event.
SubmitAccepted(c) ==
    /\ Running
    /\ caller[c].pc = "accepted"
    /\ metrics' = [metrics EXCEPT !.enqueued = @ + 1]
    /\ caller' = IF caller[c].sync
                 THEN [caller EXCEPT ![c].pc = "select"]
                 ELSE [caller EXCEPT ![c].pc = IF caller[c].sent < caller[c].total
                                               THEN "next" ELSE "returned",
                                     ![c].queued = @ + 1,
                                     ![c].signals = Append(@, Signal("true", NoResult))]
    /\ UNCHANGED <<env, graphs, graph, queue, closed, aclosed, ctxDone, worker,
                   aworker, resultC, nextId, mainPc, accepted, finished>>
    /\ UNCHANGED loaderVars

\* ProcessSync's select, case res := <-resultC.
ProcessSyncResult(c) ==
    /\ Running
    /\ caller[c].pc = "select"
    /\ Len(resultC[caller[c].ev.id]) > 0
    /\ caller' = [caller EXCEPT ![c].pc = "returned",
                                ![c].signals =
                                    Append(@, Signal("result", Head(resultC[caller[c].ev.id])))]
    /\ resultC' = [resultC EXCEPT ![caller[c].ev.id] = Tail(@)]
    /\ UNCHANGED <<env, graphs, graph, queue, closed, aclosed, ctxDone, worker,
                   aworker, metrics, nextId, mainPc, accepted, finished>>
    /\ UNCHANGED loaderVars

\* ProcessSync's select, case <-time.After(timeout) or case <-ctx.Done():
\* the timer may fire, and the request's context may be cancelled, at any
\* moment of the wait.
ProcessSyncGiveUp(c, why) ==
    /\ Running
    /\ caller[c].pc = "select"
    /\ why \in {"timeout", "cancelled"}
    /\ caller' = [caller EXCEPT ![c].pc = "returned",
                                ![c].signals = Append(@, Signal(why, NoResult))]
    /\ UNCHANGED <<env, graphs, graph, queue, closed, aclosed, ctxDone, worker,
                   aworker, resultC, metrics, nextId, mainPc, accepted,
                   finished>>
    /\ UNCHANGED loaderVars

\* ingestEvent after ProcessSync returned, kind being what it returned: any
\* error is answered with 429 Too Many Requests, a result with 200.
ingestEventStatus(kind) == IF kind = "result" THEN 200 ELSE 429

\* ---- The event pool's workers: workerPool.run and Engine.processEvent ----

RECURSIVE runActionsUntilFailure(_, _)
\* A loop over the matches that stops at the first action that fails.
runActionsUntilFailure(matches, ev) ==
    IF matches = <<>> THEN <<>>
    ELSE IF runAction(Head(matches), ev).status = "error"
    THEN <<runAction(Head(matches), ev)>>
    ELSE <<runAction(Head(matches), ev)>> \o runActionsUntilFailure(Tail(matches), ev)

RECURSIVE runActions(_, _)
\* The loop of processEvent over the matches: every match is run, in order,
\* whatever the outcome of the ones before it.
runActions(matches, ev) ==
    IF matches = <<>> THEN <<>>
    ELSE <<runAction(Head(matches), ev)>> \o runActions(Tail(matches), ev)

\* The error field of the EventResult that processEvent builds: the third
\* value of dag.Evaluate is discarded and the field is never assigned.
ResultError(evalErr) == ""

\* processEvent after its loop over the matches: the EventResult and the
\* labels of the counters incremented on the way.
eventResult(ev, r, ran) ==
    [result |-> [event_id |-> ev.id,
                 scenarios_matched |-> r.scenariosMatched,
                 actions_executed |-> [i \in DOMAIN ran |-> ran[i].res],
                 error |-> ResultError(r.evalErr)],
     actionLabels |-> [i \in DOMAIN ran |->
                          <<r.matches[i].node.actionType, ran[i].status>>]]

\* processEvent after dag.Evaluate returned r.
dispatch(ev, r) == eventResult(ev, r, runActions(r.matches, ev))

\* Engine.processEvent from dag.Evaluate on, against the graph g it loaded.
processEvent(g, ev) == dispatch(ev, Evaluate(g, ev))

\* A receive that waits for a second job to be on the queue.
runReceiveBacklog(w) ==
    /\ Running
    /\ worker[w].pc = "idle"
    /\ Len(queue) > 1
    /\ worker' = [worker EXCEPT ![w] = [IdleWorker EXCEPT !.pc = "received",
                                                          !.job = Head(queue)]]
    /\ queue' = Tail(queue)
    /\ UNCHANGED <<env, graphs, graph, closed, aclosed, ctxDone, aworker, caller,
                   resultC, metrics, nextId, mainPc, accepted, finished>>
    /\ UNCHANGED loaderVars

\* A receive that leaves the job on the queue for the next worker as well.
runReceivePeek(w) ==
    /\ Running
    /\ worker[w].pc = "idle"
    /\ Len(queue) > 0
    /\ worker' = [worker EXCEPT ![w] = [IdleWorker EXCEPT !.pc = "received",
                                                          !.job = Head(queue)]]
    /\ queue' = queue
    /\ UNCHANGED <<env, graphs, graph, closed, aclosed, ctxDone, aworker, caller,
                   resultC, metrics, nextId, mainPc, accepted, finished>>
    /\ UNCHANGED loaderVars

\* run's select, case j := <-p.queue with a job to receive.
runReceive(w) ==
    /\ Running
    /\ worker[w].pc = "idle"
    /\ Len(queue) > 0
    /\ worker' = [worker EXCEPT ![w] = [IdleWorker EXCEPT !.pc = "received",
                                                          !.job = Head(queue)]]
    /\ queue' = Tail(queue)
    /\ UNCHANGED <<env, graphs, graph, closed, aclosed, ctxDone, aworker, caller,
                   resultC, metrics, nextId, mainPc, accepted, finished>>
    /\ UNCHANGED loaderVars

\* run returns: the queue is closed and empty, or the select takes
\* case <-ctx.Done(), which it may whenever the context is cancelled,
\* whether or not a job is waiting.
runReturn(w) ==
    /\ Running
    /\ worker[w].pc = "idle"
    /\ (closed /\ Len(queue) = 0) \/ ctxDone
    /\ worker' = [worker EXCEPT ![w].pc = "stopped"]
    /\ UNCHANGED <<env, graphs, graph, queue, closed, aclosed, ctxDone, aworker,
                   caller, resultC, metrics, nextId, mainPc, accepted,
                   finished>>
    /\ UNCHANGED loaderVars

\* A processEvent that reads the engine's pointer again when it evaluates,
\* rather than using the graph it loaded.
ActiveGraph(w) == graphs[graph]

\* The graph a worker evaluates and dispatches against: the one its
\* processEvent loaded, g := e.graph.Load().
LoadedGraph(w) == graphs[worker[w].g]

\* A processEvent that keeps using the graph the engine was constructed with.
processEventLoadInitial(w) ==
    /\ Running
    /\ worker[w].pc = "received"
    /\ worker' = [worker EXCEPT ![w].pc = "loaded", ![w].g = 1]
    /\ UNCHANGED <<env, graphs, graph, queue, closed, aclosed, ctxDone, aworker,
                   caller, resultC, metrics, nextId, mainPc, accepted, finished>>
    /\ UNCHANGED loaderVars

\* processEvent, g := e.graph.Load().
processEventLoad(w) ==
    /\ Running
    /\ worker[w].pc = "received"
    /\ worker' = [worker EXCEPT ![w].pc = "loaded", ![w].g = graph]
    /\ UNCHANGED <<env, graphs, graph, queue, closed, aclosed, ctxDone, aworker,
                   caller, resultC, metrics, nextId, mainPc, accepted,
                   finished>>
    /\ UNCHANGED loaderVars

\* The end of processEvent, p being what it computed: the counters are
\* incremented and the result is returned to the pool's process function.
processEventReturn(w, p) ==
    /\ worker' = [worker EXCEPT ![w].pc = "done", ![w].result = p.result]
    /\ metrics' = [metrics EXCEPT
                     !.processed = @ + 1,
                     !.scenarios = IncLabels(@, p.result.scenarios_matched),
                     !.actions = IncLabels(@, p.actionLabels)]

\* A processEvent that is aborted when the caller of its event has returned.
processEventRunUnlessAbandoned(w) ==
    /\ Running
    /\ worker[w].pc = "loaded"
    /\ IF \E c \in Callers : /\ caller[c].ev.id = worker[w].job.ev.id
                              /\ caller[c].sync /\ caller[c].pc = "returned"
       THEN /\ worker' = [worker EXCEPT ![w] = IdleWorker]
            /\ UNCHANGED metrics
       ELSE processEventReturn(w, processEvent(LoadedGraph(w), worker[w].job.ev))
    /\ UNCHANGED <<env, graphs, graph, queue, closed, aclosed, ctxDone, aworker,
                   caller, resultC, nextId, mainPc, accepted, finished>>
    /\ UNCHANGED loaderVars

\* processEvent from dag.Evaluate to its return: evaluation, the actions,
\* the counters.  On a graph and event for which dfs recurses without end the
\* goroutine's stack overflows instead.
processEventRun(w) ==
    /\ Running
    /\ worker[w].pc = "loaded"
    /\ IF dfsUnbounded(LoadedGraph(w), worker[w].job.ev)
       THEN /\ worker' = [worker EXCEPT ![w].pc = "overflow"]
            /\ UNCHANGED metrics
       ELSE processEventReturn(w, processEvent(LoadedGraph(w), worker[w].job.ev))
    /\ UNCHANGED <<env, graphs, graph, queue, closed, aclosed, ctxDone, aworker,
                   caller, resultC, nextId, mainPc, accepted, finished>>
    /\ UNCHANGED loaderVars

\* The pool's process function if the pool's own job.result channel were the
\* caller's too: the result is sent by the process function and again by run.
runPublishTwice(w) ==
    /\ Running
    /\ worker[w].pc = "done"
    /\ resultC' = IF worker[w].job.sync
                  THEN [resultC EXCEPT ![worker[w].job.ev.id] =
                                          Append(Append(@, worker[w].result), worker[w].result)]
                  ELSE resultC
    /\ finished' = finished \cup {worker[w].job.ev.id}
    /\ worker' = [worker EXCEPT ![w] = IdleWorker]
    /\ UNCHANGED <<env, graphs, graph, queue, closed, aclosed, ctxDone, aworker,
                   caller, metrics, nextId, mainPc, accepted>>
    /\ UNCHANGED loaderVars

\* The pool's process function after processEvent: the result is sent on the
\* job's result channel, if it has one (the send waits while the channel is
\* full), and run goes back to its select; Submit leaves job.result nil, so
\* run itself sends nothing.
runPublish(w) ==
    /\ Running
    /\ worker[w].pc = "done"
    /\ worker[w].job.sync => Len(resultC[worker[w].job.ev.id]) < ResultSlots
    /\ LET id == worker[w].job.ev.id
       IN  /\ resultC' = IF worker[w].job.sync
                         THEN [resultC EXCEPT ![id] = Append(@, worker[w].result)]
                         ELSE resultC
           /\ finished' = finished \cup {id}
    /\ worker' = [worker EXCEPT ![w] = IdleWorker]
    /\ UNCHANGED <<env, graphs, graph, queue, closed, aclosed, ctxDone, aworker,
                   caller, metrics, nextId, mainPc, accepted>>
    /\ UNCHANGED loaderVars

\* An action pool worker returns: nothing is ever submitted to that pool.
actionRunReturn(w) ==
    /\ Running
    /\ aworker[w] = "idle"
    /\ aclosed \/ ctxDone
    /\ aworker' = [aworker EXCEPT ![w] = "stopped"]
    /\ UNCHANGED <<env, graphs, graph, queue, closed, aclosed, ctxDone, worker,
                   caller, resultC, metrics, nextId, mainPc, accepted,
                   finished>>
    /\ UNCHANGED loaderVars

\* ---- main's shutdown sequence and Engine.Shutdown -------------------------

\* main receives the signal; srv.Shutdown returns (requests still in flight
\* after its deadline keep running) and main calls cancel().
mainCancel ==
    /\ Running
    /\ env.shutdown
    /\ mainPc = "serving"
    /\ mainPc' = "cancelled"
    /\ ctxDone' = TRUE
    /\ UNCHANGED <<env, graphs, graph, queue, closed, aclosed, worker, aworker,
                   caller, resultC, metrics, nextId, accepted, finished>>
    /\ UNCHANGED loaderVars

\* Engine.Shutdown, eventPool.Drain: close(p.queue).
DrainClose ==
    /\ Running
    /\ mainPc = "cancelled"
    /\ mainPc' = "draining"
    /\ closed' = TRUE
    /\ UNCHANGED <<env, graphs, graph, queue, aclosed, ctxDone, worker, aworker,
                   caller, resultC, metrics, nextId, accepted, finished>>
    /\ UNCHANGED loaderVars

\* eventPool.Drain: p.wg.Wait() returns; actionPool.Drain closes its queue.
DrainWait ==
    /\ Running
    /\ mainPc = "draining"
    /\ \A w \in Workers : worker[w].pc = "stopped"
    /\ mainPc' = "action draining"
    /\ aclosed' = TRUE
    /\ UNCHANGED <<env, graphs, graph, queue, closed, ctxDone, worker, aworker,
                   caller, resultC, metrics, nextId, accepted, finished>>
    /\ UNCHANGED loaderVars

\* actionPool.Drain: p.wg.Wait() returns, and Engine.Shutdown with it.
ShutdownReturn ==
    /\ Running
    /\ mainPc = "action draining"
    /\ \A w \in ActionWorkers : aworker[w] = "stopped"
    /\ mainPc' = "shut down"
    /\ UNCHANGED <<env, graphs, graph, queue, closed, aclosed, ctxDone, worker,
                   aworker, caller, resultC, metrics, nextId, accepted,
                   finished>>
    /\ UNCHANGED loaderVars

\* main returns and the process exits.
mainReturn ==
    /\ Running
    /\ mainPc = "shut down"
    /\ mainPc' = "exited"
    /\ UNCHANGED <<env, graphs, graph, queue, closed, aclosed, ctxDone, worker,
                   aworker, caller, resultC, metrics, nextId, accepted,
                   finished>>
    /\ UNCHANGED loaderVars

\* ---- The rule file, Loader.Watch, and POST /v1/rules/reload ---------------

\* The end of the callback: the swap, unless validation or the build failed.
swapIfBuilt(valid, built) ==
    IF valid /\ built.ok
    THEN SwapGraph(built.graph)
    ELSE UNCHANGED <<graphs, graph>>

\* The callback main registers with loader.OnChange: validate, build, swap;
\* a failure of either of the first two skips the swap.
OnChange(cfg) == swapIfBuilt(Validate(cfg), Build(cfg))

\* Someone writes the rule file; fsnotify queues a Write event.
EditFile(f) ==
    /\ Running
    /\ env.edits > 0 /\ f \in env.files
    /\ env' = [env EXCEPT !.edits = @ - 1]
    /\ disk' = f
    /\ fsEvents' = fsEvents + 1
    /\ UNCHANGED <<graphs, graph, queue, closed, aclosed, ctxDone, worker, aworker,
                   caller, resultC, metrics, nextId, mainPc, accepted,
                   finished, current, watcher, reloader>>

\* The watcher goroutine receives a file event and calls l.load(): on an
\* error it continues with the old config, otherwise it sets l.current.
WatchLoad ==
    /\ Running
    /\ watcher.pc = "idle"
    /\ fsEvents > 0
    /\ fsEvents' = fsEvents - 1
    /\ IF disk.yaml
       THEN /\ current' = applyDefaults(disk.cfg)
            /\ watcher' = [watcher EXCEPT !.pc = "callbacks",
                                          !.cfg = applyDefaults(disk.cfg)]
       ELSE UNCHANGED <<current, watcher>>
    /\ UNCHANGED <<env, graphs, graph, queue, closed, aclosed, ctxDone, worker,
                   aworker, caller, resultC, metrics, nextId, mainPc, accepted, finished, disk, reloader>>

\* The watcher goroutine runs the registered callbacks on the config it loaded.
WatchCallbacks ==
    /\ Running
    /\ watcher.pc = "callbacks"
    /\ OnChange(watcher.cfg)
    /\ watcher' = IdleReload
    /\ UNCHANGED <<env, queue, closed, aclosed, ctxDone, worker, aworker, caller,
                   resultC, metrics, nextId, mainPc, accepted, finished,
                   disk, fsEvents, current, reloader>>

\* reloadRules calls Loader.Reload, which calls l.load(): an error is
\* answered with 500, otherwise l.current is set.
ReloadLoad ==
    /\ Running /\ mainPc = "serving"
    /\ reloader.pc \in {"idle", "returned"}
    /\ env.reloads > 0
    /\ env' = [env EXCEPT !.reloads = @ - 1]
    /\ IF disk.yaml
       THEN /\ current' = applyDefaults(disk.cfg)
            /\ reloader' = [pc |-> "callbacks", cfg |-> applyDefaults(disk.cfg),
                            status |-> 0]
       ELSE /\ reloader' = [IdleReload EXCEPT !.pc = "returned", !.status = 500]
            /\ UNCHANGED current
    /\ UNCHANGED <<graphs, graph, queue, closed, aclosed, ctxDone, worker, aworker,
                   caller, resultC, metrics, nextId, mainPc, accepted,
                   finished, disk, fsEvents, watcher>>

\* Loader.Reload runs the registered callbacks and returns the config.
ReloadCallbacks ==
    /\ Running
    /\ reloader.pc = "callbacks"
    /\ OnChange(reloader.cfg)
    /\ reloader' = [reloader EXCEPT !.pc = "build"]
    /\ UNCHANGED <<env, queue, closed, aclosed, ctxDone, worker, aworker, caller,
                   resultC, metrics, nextId, mainPc, accepted, finished,
                   disk, fsEvents, current, watcher>>

\* The end of reloadRules, built being what dag.Build returned: on an error
\* 422, otherwise SwapGraph and 200.
reloadRespond(built) ==
    IF built.ok
    THEN /\ SwapGraph(built.graph)
         /\ reloader' = [reloader EXCEPT !.pc = "returned", !.status = 200]
    ELSE /\ reloader' = [reloader EXCEPT !.pc = "returned", !.status = 422]
         /\ UNCHANGED <<graphs, graph>>

\* reloadRules after Reload returned: dag.Build, then the swap or the error.
ReloadBuild ==
    /\ Running
    /\ reloader.pc = "build"
    /\ reloadRespond(Build(reloader.cfg))
    /\ UNCHANGED <<env, queue, closed, aclosed, ctxDone, worker, aworker, caller,
                   resultC, metrics, nextId, mainPc, accepted, finished,
                   disk, fsEvents, current, watcher>>

\* ---- The specification ----------------------------------------------------

\* Clients that submit first logins through either call.
EnvSync == Environment(MaxEvents, {"login"}, {TRUE, FALSE}, 0, {}, 0, FALSE)

\* A client that submits a first login, through either call, to an engine
\* that may be shut down.
EnvShutdown == Environment(MaxEvents - 1, {"login"}, {TRUE, FALSE}, 0, {}, 0, TRUE)

\* Clients that submit food purchases while the rule file is edited to
\* disable the food scenario.
EnvSwap == Environment(MaxEvents, {"food"}, {TRUE}, MaxEdits, {FileDisabled}, 0, FALSE)

\* Rule files of every kind, good and bad, written and reloaded.
EnvReload ==
    Environment(0, {}, {},
                MaxEdits + 1,
                {FileBase, FileDisabled, FileDuplicate, FileUnparsable, FileBadParams,
                 FileBroken},
                MaxReloads, FALSE)

\* Clients that submit events of every kind to the initial rules.
EnvEval ==
    Environment(MaxEvents - 1, EventKinds \ {"untyped", "basket"}, {TRUE}, 0, {}, 0, FALSE)

\* A single worker and clients that submit, through ProcessAsync, as many
\* first logins as keep the worker busy and fill the queue, and one more; the
\* engine may be shut down.
EnvSaturation ==
    [Environment(SaturatingEvents, {"login"}, {FALSE}, 0, {}, 0, TRUE)
        EXCEPT !.workers = {"w1"}]

\* A client that submits a purchase while the rule file is replaced by one
\* in which both scenarios have actions for it.
EnvAudit == Environment(MaxEvents - 1, {"food", "small"}, {TRUE}, 1, {FileAudit}, 0, FALSE)

\* A single worker and clients that post events without a type, one by one
\* or in batches of any size up to one over the limit.
EnvBatch ==
    [Environment(maxBatchSize + 1, {"untyped"}, {TRUE, FALSE}, 0, {}, 0, FALSE)
        EXCEPT !.workers = {"w1"}, !.batches = 0..(maxBatchSize + 1)]

\* The rule file is replaced by a document that config.Validate rejects, by
\* one with engine settings, or by one with unusual action params.
EnvValidate ==
    Environment(0, {}, {}, 1,
                InvalidFiles \cup {FileNoVersionAndMore, FileManyViolations, FileTuned,
                                   FileFailClosed, FileBothParams, FileNoPoints},
                0, FALSE)

\* A client that submits purchases to an engine started from a rule file
\* that sets fail_open: true, and to one started with fail_open: false.
EnvFailOpen ==
    [Environment(1, {"food", "small", "odd"}, {TRUE}, 0, {}, 0, FALSE)
        EXCEPT !.workers = {"w1"}, !.start = FileTuned]

EnvFailClosed ==
    [Environment(1, {"food", "small", "odd"}, {TRUE}, 0, {}, 0, FALSE)
        EXCEPT !.workers = {"w1"}, !.start = FileFailClosed]

\* A client that submits a basket to an engine started from the rules with
\* the README's formulas.
EnvFormula ==
    [Environment(1, {"basket"}, {TRUE}, 0, {}, 0, FALSE)
        EXCEPT !.workers = {"w1"}, !.start = FileBasket]

\* The rule file is replaced by one whose conditions exercise the parser.
EnvParse ==
    Environment(0, {}, {}, 1,
                {FilePrecedence, FileTrailing, FileUnclosed, FileOperators, FileArithmetic},
                0, FALSE)

\* A client that submits a first login or a purchase to an engine started
\* from the rules with the equality conditions.
EnvEquality ==
    [Environment(1, {"login", "small"}, {TRUE}, 0, {}, 0, FALSE)
        EXCEPT !.workers = {"w1"}, !.start = FileEquality]

\* A first-login event, and a rule file in which a condition encloses a
\* condition with its own id, reloaded through the watcher or on request.
EnvCycle ==
    [Environment(1, {"login"}, {TRUE, FALSE}, 1, {FileCycle}, 1, FALSE)
        EXCEPT !.workers = {"w1"}]

Environments ==
    {EnvSync, EnvShutdown, EnvSwap, EnvReload, EnvEval, EnvSaturation, EnvAudit,
     EnvBatch, EnvValidate, EnvFailOpen, EnvFailClosed, EnvFormula, EnvParse,
     EnvEquality, EnvCycle}

Init == \E e \in Environments : InitIn(e)

Next ==
    \/ \E c \in Callers, kind \in EventKinds, sync \in BOOLEAN : Ingest(c, kind, sync)
    \/ \E c \in Callers : ingestBatchNext(c)
    \/ \E c \in Callers : Submit(c)
    \/ \E c \in Callers : SubmitRejected(c)
    \/ \E c \in Callers : SubmitAccepted(c)
    \/ \E c \in Callers : ProcessSyncResult(c)
    \/ \E c \in Callers, why \in {"timeout", "cancelled"} : ProcessSyncGiveUp(c, why)
    \/ \E w \in Workers : runReceive(w)
    \/ \E w \in Workers : runReturn(w)
    \/ \E w \in Workers : processEventLoad(w)
    \/ \E w \in Workers : processEventRun(w)
    \/ \E w \in Workers : runPublish(w)
    \/ \E w \in ActionWorkers : actionRunReturn(w)
    \/ mainCancel
    \/ DrainClose
    \/ DrainWait
    \/ ShutdownReturn
    \/ mainReturn
    \/ \E f \in Files : EditFile(f)
    \/ WatchLoad
    \/ WatchCallbacks
    \/ ReloadLoad
    \/ ReloadCallbacks
    \/ ReloadBuild

Spec == Init /\ [][Next]_vars

\* processEventRun can be taken: its enabling condition, as a state predicate.
Evaluating(w) == Running /\ worker[w].pc = "loaded"

\* The same behaviours, with the scheduler's guarantee that a worker
\* goroutine that can run does run (Drain's wg.Wait keeps main from returning
\* while a worker is busy): weak fairness of the three steps of a worker
\* between receiving a job and going back to its select, the one of
\* processEventRun being spelled out over its enabling condition.
FairSpec ==
    /\ Spec
    /\ \A w \in Workers :
          /\ WF_vars(processEventLoad(w))
          /\ WF_vars(runPublish(w))
          /\ <>[]Evaluating(w) => []<><<processEventRun(w)>>_vars

\* The same again, with the guarantee extended to a worker waiting in its
\* select while a job is on the queue, and to a submitter between Submit and
\* the increment of the enqueued counter.
LiveSpec ==
    /\ FairSpec
    /\ \A w \in Workers : WF_vars(runReceive(w))
    /\ \A c \in Callers : WF_vars(SubmitAccepted(c))

\* ------------------------------------------------------------------------
\* Properties
\* ------------------------------------------------------------------------

\* The outcomes ProcessSync can signal to its caller.
SyncOutcomes == {"result", "timeout", "cancelled", "queue full"}

\* C1: every call of ProcessSync signals exactly one of the four outcomes
\* (the event's result, a timeout, a cancellation, queue full) to its caller:
\* never two, and, once the call has ended, never none.
C1_ExactlyOneOutcome ==
    \A c \in Callers :
        caller[c].sync =>
            /\ Len(caller[c].signals) <= 1
            /\ \A i \in DOMAIN caller[c].signals : caller[c].signals[i].kind \in SyncOutcomes
            /\ caller[c].pc \in {"returned", "panicked"} => Len(caller[c].signals) = 1

\* C2: when the engine's shutdown, as main performs it (cancel the engine
\* context, then Engine.Shutdown), has returned, every event that was accepted
\* into the queue before the shutdown began has been processed by a worker.
C2_ShutdownDrains ==
    mainPc \in {"shut down", "exited"} => accepted \subseteq finished

\* C3: the queue never holds more than queue_depth events; a submission made
\* while it holds queue_depth events is rejected, leaves the queue and the
\* enqueued counter unchanged and increments the drop counter by one; a
\* submission made while it holds fewer is accepted and increments the
\* enqueued counter by one.
C3_NonBlockingSubmission ==
    [][/\ Len(queue') <= QueueDepth
       /\ \A c \in Callers :
            /\ (caller[c].pc = "submit" /\ caller'[c].pc # "submit") =>
                    IF Len(queue) >= QueueDepth
                    THEN /\ caller'[c].pc = "rejected"
                         /\ queue' = queue
                         /\ metrics' = metrics
                    ELSE /\ caller'[c].pc = "accepted"
                         /\ Len(queue') = Len(queue) + 1
            /\ (caller[c].pc = "rejected" /\ caller'[c].pc # "rejected") =>
                    /\ metrics'.dropped = metrics.dropped + 1
                    /\ metrics'.enqueued = metrics.enqueued
                    /\ queue' = queue
                    /\ caller'[c].signals =
                          <<Signal(IF caller[c].sync THEN "queue full" ELSE "false", NoResult)>>
            /\ (caller[c].pc = "accepted" /\ caller'[c].pc # "accepted") =>
                    /\ metrics'.enqueued = metrics.enqueued + 1
                    /\ metrics'.dropped = metrics.dropped]_vars

\* C4: the result of an event is what evaluation and dispatch against the one
\* graph its worker loaded at the start of processing yield, whatever graph
\* has been swapped in meanwhile; and that graph is one that was stored
\* whole by SwapGraph or engine.New.
C4_OneGraphPerEvent ==
    \A w \in Workers :
        /\ worker[w].pc \in {"loaded", "done"} => worker[w].g \in DOMAIN graphs
        /\ worker[w].pc = "done" =>
              worker[w].result = processEvent(graphs[worker[w].g], worker[w].job.ev).result

\* C4 witness: a worker has finished an event on the graph it loaded while a
\* later graph is the active one, under which the event yields another result.
C4_SwappedMeanwhile ==
    \E w \in Workers :
        /\ worker[w].pc = "done"
        /\ worker[w].g # graph
        /\ worker[w].result.actions_executed # <<>>
        /\ processEvent(graphs[graph], worker[w].job.ev).result.actions_executed = <<>>

\* The scenario the rule file edits switch off.
FoodScenario == "sc_food_high"

\* The scenario is absent of every graph stored from index k on.
DisabledSince(k) ==
    \A i \in k..Len(graphs) : \A j \in DOMAIN graphs[i].roots : graphs[i].roots[j].id # FoodScenario

\* C5: an event submitted after a SwapGraph has returned is evaluated against
\* the graph it stored or a later one; and an event submitted after the swap
\* to the rules with the food scenario disabled yields no scenario and no
\* action.
C5_SwapVisibleToLaterEvents ==
    \A w \in Workers :
        /\ worker[w].pc \in {"loaded", "done"} => worker[w].g >= worker[w].job.seen
        /\ (worker[w].pc = "done" /\ DisabledSince(worker[w].job.seen)) =>
              /\ worker[w].result.scenarios_matched = <<>>
              /\ worker[w].result.actions_executed = <<>>

\* C5 witness: an event submitted after the swap to the disabled rules has
\* been processed, and an event submitted before it had matched the scenario.
C5_ResubmittedAfterDisable ==
    \E w \in Workers, c \in Callers :
        /\ worker[w].pc = "done"
        /\ worker[w].job.seen > 1
        /\ DisabledSince(worker[w].job.seen)
        /\ caller[c].pc = "returned"
        /\ caller[c].signals # <<>>
        /\ caller[c].signals[1].kind = "result"
        /\ caller[c].signals[1].res.scenarios_matched = <<FoodScenario>>

\* A reload step of the watcher or of the reload request finds the document
\* it carries invalid or unbuildable.
RejectedReloadStep ==
    \/ /\ watcher.pc = "callbacks" /\ watcher'.pc # "callbacks"
       /\ ~(Validate(watcher.cfg) /\ Build(watcher.cfg).ok)
    \/ /\ reloader.pc \in {"callbacks", "build"} /\ reloader'.pc # reloader.pc
       /\ ~(Validate(reloader.cfg) /\ Build(reloader.cfg).ok)

\* C6: whichever way a reload is triggered (the file watcher's callback, POST
\* /v1/rules/reload), a rule document that fails validation or the graph
\* build causes no swap: the active graph remains the previous one.
C6_FailedReloadKeepsGraph ==
    [][RejectedReloadStep => (graph' = graph /\ graphs' = graphs)]_vars

\* The action nodes of a graph.
ActionNodes(g) == {g.nodes[id] : id \in {i \in DOMAIN g.nodes : g.nodes[i].kind = "action"}}

\* C7: the build calls the executor's validate hook on the params of every
\* action, and a rejection fails the build and aborts the reload: no graph
\* the engine was ever given holds an action whose params the hook rejects.
C7_BuildValidatesActions ==
    \A i \in DOMAIN graphs :
        \A n \in ActionNodes(graphs[i]) : ExecutorValidate(n.actionType, n.params)

\* C8: the error field of the result of an event is the first condition
\* evaluation error of its processing, and is empty when there was none.
C8_FirstErrorInResult ==
    \A w \in Workers :
        worker[w].pc = "done" =>
            worker[w].result.error = Evaluate(graphs[worker[w].g], worker[w].job.ev).evalErr

RECURSIVE TrueLeaves(_, _, _)
\* The ids of the action leaves below parentID that are reached through
\* conditions that all evaluate to true on ev, whatever their siblings do.
TrueLeaves(g, ev, parentID) ==
    UNION {IF Children(g, parentID)[j].kind = "action"
           THEN {Children(g, parentID)[j].id}
           ELSE IF ConditionEvaluate(Children(g, parentID)[j].expr, ev) = Bool(TRUE)
           THEN TrueLeaves(g, ev, Children(g, parentID)[j].id)
           ELSE {} : j \in DOMAIN Children(g, parentID)}

\* The same over the scenarios that accept the event.
TrueLeavesOfRoots(g, ev) ==
    UNION {IF ScenarioEvaluate(g.roots[i], ev).val
           THEN TrueLeaves(g, ev, g.roots[i].id) ELSE {} : i \in DOMAIN g.roots}

\* C9: a condition that fails with an error prunes its own subtree only:
\* the actions of an event are exactly the action leaves whose chain of
\* ancestors evaluated to true, whatever errors occurred in other branches.
C9_FailOpen ==
    \A w \in Workers :
        worker[w].pc = "done" =>
            {worker[w].result.actions_executed[i].action_id :
                 i \in DOMAIN worker[w].result.actions_executed}
            = TrueLeavesOfRoots(graphs[worker[w].g], worker[w].job.ev)

\* C9 witness: an event whose evaluation met an error in one branch has had
\* an action of a later sibling branch matched.
C9_ErrorAndSiblingFired ==
    \E w \in Workers :
        /\ worker[w].pc = "done"
        /\ Evaluate(graphs[worker[w].g], worker[w].job.ev).errors # <<>>
        /\ Head(Evaluate(graphs[worker[w].g], worker[w].job.ev).errors) = "c_tier"
        /\ \E i \in DOMAIN worker[w].result.actions_executed :
               worker[w].result.actions_executed[i].action_id = "a_items"

\* An action that cannot succeed on ev: no executor for its type, or its
\* points cannot be resolved (division by zero, missing or non-numeric field).
Fails(node, ev) ==
    ~RegistryGet(node.actionType) \/ ~resolvePoints(node.params, ev).ok

\* C10: actions_executed holds one entry per matched action, in match order;
\* the entry of an action that fails has success = false and a message, and
\* the actions after it are executed all the same.
C10_FailedActionRecorded ==
    \A w \in Workers :
        worker[w].pc = "done" =>
            LET ms == Evaluate(graphs[worker[w].g], worker[w].job.ev).matches
                rs == worker[w].result.actions_executed
            IN  /\ Len(rs) = Len(ms)
                /\ \A i \in DOMAIN rs :
                      /\ rs[i].action_id = ms[i].node.id
                      /\ rs[i].success = ~Fails(ms[i].node, worker[w].job.ev)
                      /\ ~rs[i].success => rs[i].message # ""

\* C10 witness: an event's second action failed on a division by zero, its
\* third for want of an executor, and its fourth was executed and succeeded.
C10_FailureThenSuccess ==
    \E w \in Workers :
        /\ worker[w].pc = "done"
        /\ Len(worker[w].result.actions_executed) >= 4
        /\ ~worker[w].result.actions_executed[2].success
        /\ worker[w].result.actions_executed[2].message
              = "points_formula eval error: division by zero in points_formula"
        /\ ~worker[w].result.actions_executed[3].success
        /\ worker[w].result.actions_executed[4].success

\* The ProcessSync call of c has returned a timeout or a cancellation.
GaveUp(c) ==
    /\ caller[c].sync /\ caller[c].pc = "returned"
    /\ caller[c].signals # <<>>
    /\ Head(caller[c].signals).kind \in {"timeout", "cancelled"}

\* The workers that hold an event: they have received it and not yet
\* published its result.
Busy == {w \in Workers : worker[w].pc \in {"received", "loaded", "done"}}

\* A worker that holds an event only moves on to the next stage of its
\* processing, and ends it with the full result of the event.
NeverAborted ==
    \A w \in Workers :
        /\ worker[w].pc = "received" => worker'[w].pc \in {"received", "loaded"}
        /\ worker[w].pc = "loaded" => worker'[w].pc \in {"loaded", "done"}
        /\ (worker[w].pc = "loaded" /\ worker'[w].pc = "done") =>
              /\ worker'[w].job = worker[w].job
              /\ worker'[w].result =
                    processEvent(graphs[worker[w].g], worker[w].job.ev).result
        /\ worker[w].pc = "done" =>
              \/ worker'[w] = worker[w]
              \/ worker'[w].pc = "idle" /\ worker[w].job.ev.id \in finished'

\* A result leaves its channel only into the hands of the caller that is
\* waiting for that event in its select.
OnlyToWaitingCaller ==
    \A id \in DOMAIN resultC :
        resultC'[id] # resultC[id] /\ Len(resultC'[id]) < Len(resultC[id]) =>
            \E c \in Callers :
                /\ caller[c].pc = "select" /\ caller[c].ev.id = id
                /\ caller'[c].signals = <<Signal("result", Head(resultC[id]))>>

\* C11: a ProcessSync caller's return on timeout or cancellation does not
\* abort the worker: an event that has been dequeued is processed to
\* completion, with all its matched actions, whatever its caller does, and
\* the result of an event whose caller has returned is delivered to nobody.
C11_WorkerCompletesAfterGiveUp ==
    /\ [][NeverAborted /\ OnlyToWaitingCaller]_vars
    /\ \A w \in Workers : (w \in Busy) ~> (worker[w].pc = "idle")

\* C11 witness: a worker has processed, to its full result, an event whose
\* caller had already returned on timeout or cancellation.
C11_ProcessedForNobody ==
    \E w \in Workers, c \in Callers :
        /\ GaveUp(c)
        /\ worker[w].pc = "done"
        /\ worker[w].job.ev.id = caller[c].ev.id
        /\ worker[w].result.actions_executed # <<>>

\* C12: the worker's send of a result never has to wait, whatever the caller
\* has done: no result channel ever holds more than its one slot, a worker
\* about to send finds the channel of its event empty with nothing sent on
\* it before, and no event is held by two workers, so that at most one value
\* is ever written to each channel.
C12_PublishNeverBlocks ==
    /\ \A id \in DOMAIN resultC :
          /\ Len(resultC[id]) <= ResultSlots
          /\ resultC[id] # <<>> => id \in finished
    /\ \A w \in Busy :
          /\ worker[w].job.ev.id \notin finished
          /\ worker[w].job.sync =>
                /\ worker[w].job.ev.id \in DOMAIN resultC
                /\ resultC[worker[w].job.ev.id] = <<>>
          /\ \A v \in Busy \ {w} : worker[v].job.ev.id # worker[w].job.ev.id

\* C12 witness: a worker has sent the result of an event whose caller had
\* returned on timeout or cancellation, and is back at its select.
C12_PublishedToAbsentCaller ==
    \E c \in Callers :
        /\ GaveUp(c)
        /\ resultC[caller[c].ev.id] # <<>>
        /\ \A w \in Workers : worker[w].pc = "idle"

\* Every worker goroutine the engine started holds an event, so that none
\* is at its select to receive from the queue.
AllWorkersBusy == \A w \in env.workers : w \in Busy

\* What C13 asks of a step taken while all workers are busy.
SaturationStep ==
    /\ Len(queue') >= Len(queue)
    /\ \A c \in Callers :
          /\ (caller[c].pc = "submit" /\ caller'[c].pc # "submit") =>
                IF Len(queue) < QueueDepth
                THEN /\ caller'[c].pc = "accepted"
                     /\ Len(queue') = Len(queue) + 1
                ELSE /\ caller'[c].pc = "rejected"
                     /\ queue' = queue
          /\ (caller[c].pc = "rejected" /\ caller'[c].pc # "rejected") =>
                /\ metrics'.dropped = metrics.dropped + 1
                /\ caller'[c].signals =
                      <<Signal(IF caller[c].sync THEN "queue full" ELSE "false", NoResult)>>

\* C13: while every event worker is busy with an earlier event, the queue
\* only fills: starting from the empty queue exactly queue_depth further
\* submissions are accepted (each submission that finds fewer than
\* queue_depth events queued is), and every submission after them is rejected
\* as queue-full and increments the drop counter by exactly one.
C13_QueueSaturation == [][AllWorkersBusy => SaturationStep]_vars

\* The places of graph g that hold a node: the roots list and the children
\* lists.
Places(g) ==
    {[parent |-> "", root |-> TRUE, at |-> i] : i \in DOMAIN g.roots}
        \cup UNION {{[parent |-> p, root |-> FALSE, at |-> j] : j \in DOMAIN g.children[p]}
                        : p \in DOMAIN g.children}

NodeAt(g, place) == IF place.root THEN g.roots[place.at] ELSE g.children[place.parent][place.at]

ChildIds(g, id) == {Children(g, id)[j].id : j \in DOMAIN Children(g, id)}

RECURSIVE Below(_, _, _), BelowOf(_, _, _)
\* The ids reachable from id over at most n edges.
Below(g, id, n) == IF n = 0 THEN {} ELSE BelowOf(g, ChildIds(g, id), n)

BelowOf(g, kids, n) == kids \cup UNION {Below(g, k, n - 1) : k \in kids}

\* (I1) no two places hold nodes with the same id.
UniqueIds(g) ==
    \A p, q \in Places(g) : NodeAt(g, p).id = NodeAt(g, q).id => p = q

\* (I2) a scenario node is held by the roots list only, and only scenario
\* nodes are.
ScenariosAreRoots(g) ==
    \A p \in Places(g) : (NodeAt(g, p).kind = "scenario") <=> p.root

\* (I3) no node held as an action has successors.
ActionsAreLeaves(g) ==
    \A p \in Places(g) : NodeAt(g, p).kind = "action" => Children(g, NodeAt(g, p).id) = <<>>

\* (I4) no node is its own descendant.
Acyclic(g) ==
    \A id \in DOMAIN g.nodes : id \notin Below(g, id, Cardinality(DOMAIN g.nodes))

\* C14: the graph the engine holds as active always satisfies the graph
\* invariants: ids unique over all nodes, scenario nodes only as roots,
\* action nodes without outgoing edges, and no cycle.
C14_ActiveGraphInvariants ==
    /\ UniqueIds(graphs[graph])
    /\ ScenariosAreRoots(graphs[graph])
    /\ ActionsAreLeaves(graphs[graph])
    /\ Acyclic(graphs[graph])

RECURSIVE TrueChainLeaves(_, _, _, _, _)
\* The action leaves below parentID whose conditions on the way down all
\* evaluate to true on ev, each with its scenario and its path: the index of
\* its scenario among the roots followed by the child index at every level.
TrueChainLeaves(g, ev, parentID, scenarioID, path) ==
    UNION {IF Children(g, parentID)[j].kind = "action"
           THEN {[path |-> Append(path, j), scenarioID |-> scenarioID,
                  node |-> Children(g, parentID)[j]]}
           ELSE IF ConditionEvaluate(Children(g, parentID)[j].expr, ev) = Bool(TRUE)
           THEN TrueChainLeaves(g, ev, Children(g, parentID)[j].id, scenarioID,
                                Append(path, j))
           ELSE {} : j \in DOMAIN Children(g, parentID)}

\* The same over the scenarios whose filter accepts the event.
TrueChains(g, ev) ==
    UNION {IF ScenarioEvaluate(g.roots[i], ev) = Bool(TRUE)
           THEN TrueChainLeaves(g, ev, g.roots[i].id, g.roots[i].id, <<i>>)
           ELSE {} : i \in DOMAIN g.roots}

\* p comes before q in document order: at the first index where they differ
\* p is smaller.  (No path of a leaf is a prefix of another's.)
Before(p, q) ==
    \E k \in DOMAIN p \cap DOMAIN q :
        /\ p[k] < q[k]
        /\ \A i \in 1..(k - 1) : p[i] = q[i]

\* ms lists exactly the leaves of the set leaves, in document order.
ListsInOrder(ms, leaves) ==
    /\ Len(ms) = Cardinality(leaves)
    /\ \E paths \in [DOMAIN ms -> {l.path : l \in leaves}] :
          /\ \A i \in DOMAIN ms :
                [path |-> paths[i], scenarioID |-> ms[i].scenarioID, node |-> ms[i].node]
                    \in leaves
          /\ \A i, j \in DOMAIN ms : i < j => Before(paths[i], paths[j])

\* C15: the matches dag.Evaluate returns for an event are exactly the action
\* leaves whose scenario filter and conditions all evaluated to true, in
\* scenario document order and depth-first pre-order inside a scenario; the
\* actions executed for the event are those, in that order, so two events
\* with the same content evaluated on the same graph get the same list.
C15_MatchesInPreOrder ==
    \A w \in Workers :
        worker[w].pc = "done" =>
            /\ ListsInOrder(Evaluate(graphs[worker[w].g], worker[w].job.ev).matches,
                            TrueChains(graphs[worker[w].g], worker[w].job.ev))
            /\ [i \in DOMAIN worker[w].result.actions_executed |->
                    worker[w].result.actions_executed[i].action_id]
               = [i \in DOMAIN Evaluate(graphs[worker[w].g], worker[w].job.ev).matches |->
                    Evaluate(graphs[worker[w].g], worker[w].job.ev).matches[i].node.id]
            /\ \A v \in Workers :
                  (/\ worker[v].pc = "done"
                   /\ worker[v].g = worker[w].g
                   /\ [worker[v].job.ev EXCEPT !.id = ""] = [worker[w].job.ev EXCEPT !.id = ""])
                  => worker[v].result.actions_executed = worker[w].result.actions_executed

\* C15 witness: an event matched actions three levels down in one scenario
\* and, after them, an action of a later scenario, while a branch between
\* them was pruned.
C15_TwoScenariosInOrder ==
    \E w \in Workers :
        /\ worker[w].pc = "done"
        /\ Len(worker[w].result.actions_executed) >= 3
        /\ worker[w].result.actions_executed[1].action_id = "a_bonus"
        /\ worker[w].result.scenarios_matched = <<"sc_food_high", "sc_any">>
        /\ worker[w].result.actions_executed[Len(worker[w].result.actions_executed)].action_id
              = "a_audit"
        /\ \E l \in TrueChains(graphs[worker[w].g], worker[w].job.ev) : Len(l.path) = 2
        /\ \E l \in TrueChains(graphs[worker[w].g], worker[w].job.ev) : Len(l.path) = 4

\* The root of g with the given id.
RootIndex(g, id) == CHOOSE i \in DOMAIN g.roots : g.roots[i].id = id

\* What C16 asks of the scenario ids sm returned with the matches ms on g.
ScenariosOfMatches(g, sm, ms) ==
    /\ \A i \in DOMAIN g.roots :
          (\E k \in DOMAIN sm : sm[k] = g.roots[i].id)
              <=> (\E k \in DOMAIN ms : ms[k].scenarioID = g.roots[i].id)
    /\ \A k \in DOMAIN sm : \E i \in DOMAIN g.roots : g.roots[i].id = sm[k]
    /\ \A j, k \in DOMAIN sm : j < k => RootIndex(g, sm[j]) < RootIndex(g, sm[k])

\* C16: scenarios_matched lists a scenario if and only if at least one of the
\* returned action matches belongs to it (a scenario whose filter passes but
\* whose conditions prune every action is not listed), once each and in
\* document order.
C16_ListedIffActionMatched ==
    \A w \in Workers :
        worker[w].pc = "done" =>
            /\ worker[w].result.scenarios_matched
                  = Evaluate(graphs[worker[w].g], worker[w].job.ev).scenariosMatched
            /\ ScenariosOfMatches(graphs[worker[w].g],
                                  worker[w].result.scenarios_matched,
                                  Evaluate(graphs[worker[w].g], worker[w].job.ev).matches)

\* C16 witness: an event passed the filter of two scenarios, and only the one
\* in which it reached an action is listed.
C16_PassedButPruned ==
    \E w \in Workers :
        /\ worker[w].pc = "done"
        /\ \A i \in DOMAIN graphs[worker[w].g].roots :
              ScenarioEvaluate(graphs[worker[w].g].roots[i], worker[w].job.ev) = Bool(TRUE)
        /\ Len(graphs[worker[w].g].roots) = 2
        /\ worker[w].result.scenarios_matched = <<"sc_food_high">>
        /\ worker[w].result.actions_executed # <<>>

\* Two strings are the same up to the case of their letters.
SameFold(a, b) == StrToUpper(a) = StrToUpper(b)

\* The filter of scenario sc as its document states it.
FilterPasses(sc, ev) ==
    /\ \E i \in DOMAIN sc.event_types : SameFold(sc.event_types[i], ev.type)
    /\ \/ sc.sources = <<>>
       \/ \E i \in DOMAIN sc.sources : SameFold(sc.sources[i], ev.source)

\* The enabled scenarios of a document, in order.
EnabledScenarios(cfg) == SelectSeq(cfg.scenarios, LAMBDA sc : sc.enabled)

\* The documents graph g can have been built from: their enabled scenarios
\* are g's roots, in order.
DocumentsOf(g) ==
    {f \in {FileBase, FileDisabled, FileDuplicate, FileBadParams, FileAudit} :
        /\ f.yaml
        /\ [i \in DOMAIN EnabledScenarios(f.cfg) |-> EnabledScenarios(f.cfg)[i].id]
              = [i \in DOMAIN g.roots |-> g.roots[i].id]
        /\ \A i \in DOMAIN g.roots :
              g.roots[i] = NewScenarioNode(EnabledScenarios(f.cfg)[i].id,
                                           EnabledScenarios(f.cfg)[i].event_types,
                                           EnabledScenarios(f.cfg)[i].sources)}

\* The filter of every root of g decides as the document cfg states.
FilterAsDocumented(g, cfg, ev) ==
    \A i \in DOMAIN g.roots :
        ScenarioEvaluate(g.roots[i], ev) = Bool(FilterPasses(EnabledScenarios(cfg)[i], ev))

\* The evaluation r of ev on g holds nothing of a scenario whose filter
\* failed: no match, no error of a node below it, no listing.
FailedFilterSkips(g, ev, r) ==
    \A i \in DOMAIN g.roots :
        ScenarioEvaluate(g.roots[i], ev) = Bool(FALSE) =>
            /\ \A k \in DOMAIN r.matches : r.matches[k].scenarioID # g.roots[i].id
            /\ \A k \in DOMAIN r.errors :
                  r.errors[k] \notin Below(g, g.roots[i].id, Cardinality(DOMAIN g.nodes))
            /\ \A k \in DOMAIN r.scenariosMatched : r.scenariosMatched[k] # g.roots[i].id

\* C17: a scenario's filter passes an event iff the event's type is among the
\* scenario's event types and the scenario names no sources or the event's
\* source is among them, both compared without regard to case; when it fails
\* none of the scenario's conditions is evaluated (none reports an error)
\* and none of its actions is matched.
C17_ScenarioFilter ==
    \A w \in Workers :
        worker[w].pc = "done" =>
            /\ DocumentsOf(graphs[worker[w].g]) # {}
            /\ \A f \in DocumentsOf(graphs[worker[w].g]) :
                  FilterAsDocumented(graphs[worker[w].g], f.cfg, worker[w].job.ev)
            /\ FailedFilterSkips(graphs[worker[w].g], worker[w].job.ev,
                                 Evaluate(graphs[worker[w].g], worker[w].job.ev))

\* C17 witness: an event whose type and source are written in another case
\* than the scenario's passed its filter and triggered an action of it.
C17_OtherCasePassed ==
    \E w \in Workers :
        /\ worker[w].pc = "done"
        /\ worker[w].job.ev.type = "Transaction"
        /\ worker[w].job.ev.source = "POS-System"
        /\ FileAudit \in DocumentsOf(graphs[worker[w].g])
        /\ "sc_food_high" \in Range(worker[w].result.scenarios_matched)

RECURSIVE IdsOfRefs(_)
\* The ids of the conditions and actions of a list of NodeRefs, at any depth.
IdsOfRefs(refs) ==
    UNION {IF refs[j].condition # <<>>
           THEN {refs[j].condition[1].id} \cup IdsOfRefs(refs[j].condition[1].children)
           ELSE {refs[j].action[k].id : k \in DOMAIN refs[j].action} : j \in DOMAIN refs}

\* Every id that occurs anywhere in graph g.
IdsIn(g) ==
    DOMAIN g.nodes \cup DOMAIN g.children \cup {NodeAt(g, p).id : p \in Places(g)}

\* Graph g holds nothing of the disabled scenarios of document cfg.
NothingOfDisabled(g, cfg) ==
    \A i \in DOMAIN cfg.scenarios :
        ~cfg.scenarios[i].enabled =>
            IdsIn(g) \cap ({cfg.scenarios[i].id} \cup IdsOfRefs(cfg.scenarios[i].children)) = {}

\* A step that stores a newly built graph, and the document it was built
\* from: the one the watcher or the reload request is working on.
Stored == Len(graphs') = Len(graphs) + 1

StoredFrom == IF watcher' # watcher THEN watcher.cfg ELSE reloader.cfg

\* The result of worker w names only scenarios and actions of graph g.
ResultWithin(res, g) ==
    /\ \A k \in DOMAIN res.scenarios_matched :
          \E i \in DOMAIN g.roots : g.roots[i].id = res.scenarios_matched[k]
    /\ \A k \in DOMAIN res.actions_executed :
          \E n \in ActionNodes(g) : n.id = res.actions_executed[k].action_id

\* C18: a graph built from a document holds nothing of the document's
\* disabled scenarios (not the scenario node, none of its conditions or
\* actions), and the result of an event names only scenarios and actions of
\* the graph it was evaluated on: a disabled scenario is never matched and
\* none of its actions triggered.
C18_DisabledAbsent ==
    [][/\ Stored => NothingOfDisabled(graphs'[Len(graphs')], StoredFrom)
       /\ \A w \in Workers :
             (worker[w].pc = "loaded" /\ worker'[w].pc = "done") =>
                 ResultWithin(worker'[w].result, graphs[worker[w].g])]_vars

\* C18 witness: the rules with sc_food_high disabled are active, the graph
\* holds sc_any alone, and a high-value food purchase evaluated on it has
\* triggered nothing.
C18_DisabledFoodRulesUsed ==
    \E w \in Workers :
        /\ worker[w].pc = "done"
        /\ worker[w].g = graph /\ graph > 1
        /\ current = applyDefaults(FileDisabled.cfg)
        /\ ~NothingOfDisabled(graphs[1], current)
        /\ NothingOfDisabled(graphs[graph], current)
        /\ FilterPasses(current.scenarios[1], worker[w].job.ev)
        /\ worker[w].result.actions_executed = <<>>

RECURSIVE SubExprs(_)
\* An expression and all the expressions inside it.
SubExprs(e) ==
    {e} \cup (CASE e.kind = "binary" -> SubExprs(e.left) \cup SubExprs(e.right)
                [] e.kind = "not" -> SubExprs(e.expr)
                [] OTHER -> {})

\* The left operand of the binary expression e decides it on ev.
LeftDecides(e, ev) ==
    \/ StrToUpper(e.op) = "AND" /\ ConditionEvaluate(e.left, ev) = Bool(FALSE)
    \/ StrToUpper(e.op) = "OR" /\ ConditionEvaluate(e.left, ev) = Bool(TRUE)

\* The short-circuit law for one expression: when its left operand decides
\* it, its value is that of the left operand, without error, and no field is
\* resolved beyond those the left operand resolved.
ShortCircuits(e, ev) ==
    (e.kind = "binary" /\ LeftDecides(e, ev)) =>
        /\ ConditionEvaluate(e, ev) = ConditionEvaluate(e.left, ev)
        /\ Resolves(e, ev) = Resolves(e.left, ev)

\* The condition nodes of a graph.
ConditionNodes(g) ==
    {g.nodes[id] : id \in {i \in DOMAIN g.nodes : g.nodes[i].kind = "condition"}}

\* C19: in the evaluation of an event, `A AND B` with A false and `A OR B`
\* with A true never evaluate B: no field of B is resolved, and an error B
\* would raise is not raised.
C19_ShortCircuit ==
    \A w \in Workers :
        worker[w].pc = "done" =>
            \A n \in ConditionNodes(graphs[worker[w].g]) :
                \A e \in SubExprs(n.expr) : ShortCircuits(e, worker[w].job.ev)

\* C19 witness: an event was evaluated on conditions `A AND B` with A false
\* and `A OR B` with A true whose B fails on a missing field; neither
\* reported an error and the action under the OR was triggered.
C19_MissingFieldNotRead ==
    \E w \in Workers :
        /\ worker[w].pc = "done"
        /\ \E n, m \in ConditionNodes(graphs[worker[w].g]) :
              /\ n.expr.kind = "binary" /\ StrToUpper(n.expr.op) = "AND"
              /\ m.expr.kind = "binary" /\ StrToUpper(m.expr.op) = "OR"
              /\ LeftDecides(n.expr, worker[w].job.ev)
              /\ LeftDecides(m.expr, worker[w].job.ev)
              /\ ConditionEvaluate(n.expr.right, worker[w].job.ev) = EvalError
              /\ ConditionEvaluate(m.expr.right, worker[w].job.ev) = EvalError
              /\ Resolves(m.expr, worker[w].job.ev) = <<<<"payload", "amount">>>>
              /\ \A k \in DOMAIN Evaluate(graphs[worker[w].g], worker[w].job.ev).errors :
                    Evaluate(graphs[worker[w].g], worker[w].job.ev).errors[k] \notin {n.id, m.id}
        /\ \E k \in DOMAIN worker[w].result.actions_executed :
              worker[w].result.actions_executed[k].action_id = "a_or"

\* The ProcessSync call of c has returned to ingestEvent.
Answered(c) == caller[c].sync /\ caller[c].pc = "returned" /\ caller[c].signals # <<>>

\* C20: POST /v1/events answers 429 only when the submission was rejected
\* because the queue was full; a timeout and a cancellation are answered
\* otherwise.
C20_TooManyRequestsOnlyWhenFull ==
    \A c \in Callers :
        Answered(c) =>
            (ingestEventStatus(Head(caller[c].signals).kind) = 429
                => Head(caller[c].signals).kind = "queue full")

\* C21: every event in the engine's queue, and every event a worker has
\* received from it, has a non-empty type, whichever path it came in by.
C21_QueuedEventsTyped ==
    /\ \A i \in DOMAIN queue : queue[i].ev.type # ""
    /\ \A w \in Busy : worker[w].job.ev.type # ""

\* The event with this id was accepted by the queue: it is in the queue, with
\* a worker, or processed.
Enqueued(id) ==
    \/ \E i \in DOMAIN queue : queue[i].ev.id = id
    \/ \E w \in Busy : worker[w].job.ev.id = id
    \/ id \in finished

\* The counts ingestBatch reports when it answers 202.
BatchReport(c) ==
    [total |-> caller[c].total, queued |-> caller[c].queued,
     rejected |-> caller[c].total - caller[c].queued]

\* The batch request of c is over: answered, or its goroutine has panicked.
BatchOver(c) == ~caller[c].sync /\ caller[c].pc \in {"returned", "refused", "panicked"}

\* What C22 asks of a batch request that is over.
BatchHandled(c) ==
    IF caller[c].total > maxBatchSize
    THEN caller[c].pc = "refused" /\ caller[c].ids = {}
    ELSE caller[c].total >= 1 =>
            /\ caller[c].pc = "returned"
            /\ caller[c].sent = caller[c].total
            /\ Cardinality(caller[c].ids) = caller[c].total
            /\ BatchReport(c).queued = Cardinality({id \in caller[c].ids : Enqueued(id)})
            /\ BatchReport(c).queued + BatchReport(c).rejected = BatchReport(c).total

\* C22: a batch of more than maxBatchSize events is refused before any of its
\* events is submitted; a batch of 1 to maxBatchSize events submits each of
\* its events once and reports queued + rejected = total, queued being the
\* number of its events the queue accepted.
C22_BatchCounts == \A c \in Callers : BatchOver(c) => BatchHandled(c)

RECURSIVE AllRefs(_)
\* The children of a node and, after each condition, its own descendants.
AllRefs(refs) ==
    IF refs = <<>> THEN <<>>
    ELSE <<Head(refs)>>
             \o (IF Head(refs).condition # <<>>
                 THEN AllRefs(Head(refs).condition[1].children) ELSE <<>>)
             \o AllRefs(Tail(refs))

RECURSIVE RefsOfScenarios(_)
\* The same over all the scenarios of a document, disabled ones included.
RefsOfScenarios(scenarios) ==
    IF scenarios = <<>> THEN <<>>
    ELSE AllRefs(Head(scenarios).children) \o RefsOfScenarios(Tail(scenarios))

\* The id of a child: its condition's or its action's.
RefId(ref) ==
    IF ref.condition # <<>> THEN ref.condition[1].id
    ELSE IF ref.action # <<>> THEN ref.action[1].id
    ELSE "?"

IdsOfChildren(refs) == [i \in DOMAIN refs |-> RefId(refs[i])]

\* The ids a document gives its scenarios, conditions and actions, one entry
\* per node.
IdsOfDocument(cfg) ==
    [i \in DOMAIN cfg.scenarios |-> cfg.scenarios[i].id]
        \o IdsOfChildren(RefsOfScenarios(cfg.scenarios))

\* No entry of ids is empty and none occurs twice.
IdsWellFormed(ids) ==
    /\ \A i \in DOMAIN ids : ids[i] # ""
    /\ \A i, j \in DOMAIN ids : ids[i] = ids[j] => i = j

\* Every child sets exactly one of condition and action, a condition has an
\* expression and an action a type.
RefsWellFormed(refs) ==
    \A i \in DOMAIN refs :
        /\ (refs[i].condition = <<>>) # (refs[i].action = <<>>)
        /\ \A k \in DOMAIN refs[i].condition : refs[i].condition[k].expression # ""
        /\ \A k \in DOMAIN refs[i].action : refs[i].action[k].type # ""

\* The rules of the document validator.
WellFormed(cfg) ==
    /\ cfg.version # ""
    /\ IdsWellFormed(IdsOfDocument(cfg))
    /\ \A i \in DOMAIN cfg.scenarios : cfg.scenarios[i].event_types # <<>>
    /\ RefsWellFormed(RefsOfScenarios(cfg.scenarios))

\* Some id of the sequence ids is the id at index i again.
UsedAgain(ids, i) == \E k \in DOMAIN ids : k # i /\ ids[k] = ids[i]

\* The watcher, or a reload request, is about to run the callbacks on cfg.
Validating(cfg) ==
    \/ watcher.pc = "callbacks" /\ watcher.cfg = cfg
    \/ reloader.pc = "callbacks" /\ reloader.cfg = cfg

\* C23: config.Validate accepts a document only if it has a version, every
\* scenario, condition and action a non-empty id that no other node of any
\* kind has (disabled scenarios included), every scenario an event type,
\* every condition an expression, every action a type, and every child
\* exactly one of condition and action.
C23_ValidateAcceptsOnlyWellFormed ==
    /\ (Validating(watcher.cfg) /\ Validate(watcher.cfg)) => WellFormed(watcher.cfg)
    /\ (Validating(reloader.cfg) /\ Validate(reloader.cfg)) => WellFormed(reloader.cfg)

\* C23 witness: a document whose only fault is that a condition reuses the
\* id of a disabled scenario is being validated, and is rejected.
C23_DisabledIdReused ==
    /\ Validating(watcher.cfg)
    /\ ~Validate(watcher.cfg)
    /\ Len(ValidateErrors(watcher.cfg)) = 1
    /\ \E i \in DOMAIN watcher.cfg.scenarios :
          /\ ~watcher.cfg.scenarios[i].enabled
          /\ UsedAgain(IdsOfDocument(watcher.cfg), i)

\* The kinds of violation a document holds, by the validator's rules.
ViolationsOf(cfg) ==
    {"version is required" : x \in {1} \cap {IF cfg.version = "" THEN 1 ELSE 0}}
    \cup {"duplicate id" : i \in {k \in DOMAIN IdsOfDocument(cfg) :
                                     UsedAgain(IdsOfDocument(cfg), k)}}
    \cup {"event_types must not be empty" :
              i \in {k \in DOMAIN cfg.scenarios : cfg.scenarios[k].event_types = <<>>}}
    \cup {"expression is required" :
              r \in {x \in Range(RefsOfScenarios(cfg.scenarios)) :
                        \E k \in DOMAIN x.condition : x.condition[k].expression = ""}}
    \cup {"type is required" :
              r \in {x \in Range(RefsOfScenarios(cfg.scenarios)) :
                        \E k \in DOMAIN x.action : x.action[k].type = ""}}

\* The kinds of violation the error of Validate lists.
Listed(errs) == {errs[i][1] : i \in DOMAIN errs}

\* C24: the error Validate returns for a document lists every violation the
\* document holds (missing version, duplicate ids, empty event types, empty
\* expression, empty action type), not only the first one found.
C24_EveryViolationListed ==
    /\ Validating(watcher.cfg) =>
          ViolationsOf(watcher.cfg) \subseteq Listed(ValidateErrors(watcher.cfg))
    /\ Validating(reloader.cfg) =>
          ViolationsOf(reloader.cfg) \subseteq Listed(ValidateErrors(reloader.cfg))

\* The documented default of every engine setting.
EngineDefaults ==
    [event_workers |-> 32, action_workers |-> 16, queue_depth |-> 10000,
     event_timeout_ms |-> 5000, fail_open |-> TRUE]

\* cfg is what loading the file yields by the documented rule: a setting the
\* file does not hold has its default, one it holds has the file's value.
LoadedWithDefaults(file, cfg) ==
    \A setting \in DOMAIN EngineDefaults :
        cfg.engine[setting] = IF setting \in file.settings
                              THEN file.cfg.engine[setting]
                              ELSE EngineDefaults[setting]

\* C25: after a load of the rule file, by the watcher or by a reload request,
\* every engine setting absent from the file has its default (event_workers
\* 32, action_workers 16, queue_depth 10000, event_timeout_ms 5000, fail_open
\* true) and every setting present keeps its value.
C25_DefaultsAfterLoad ==
    [][/\ (watcher.pc = "idle" /\ watcher'.pc = "callbacks") =>
              LoadedWithDefaults(disk, watcher'.cfg) /\ current' = watcher'.cfg
       /\ (reloader.pc # "callbacks" /\ reloader'.pc = "callbacks") =>
              LoadedWithDefaults(disk, reloader'.cfg) /\ current' = reloader'.cfg]_vars

\* The errors of the condition evaluations made for the event a worker has
\* finished processing.
ErrorsOf(w) == Evaluate(graphs[worker[w].g], worker[w].job.ev).errors

\* A worker has processed an event for which a condition evaluation failed.
ConditionErrored(w) == worker[w].pc = "done" /\ ErrorsOf(w) # <<>>

\* C26: the fail_open setting governs what a condition evaluation error does
\* to an event: when an event has been processed and one of its conditions
\* failed to evaluate, an engine with fail_open = true has not failed the
\* event (its result has no error), and an engine with fail_open = false has
\* failed it (its result has an error).
C26_FailOpenGoverns ==
    \A w \in Workers :
        ConditionErrored(w) =>
            IF conf.fail_open THEN worker[w].result.error = ""
            ELSE worker[w].result.error # ""

\* The params of the reward_points actions of a document.
RewardParamsOf(cfg) ==
    {RefsOfScenarios(cfg.scenarios)[i].action[1].params :
        i \in {j \in DOMAIN RefsOfScenarios(cfg.scenarios) :
                  /\ RefsOfScenarios(cfg.scenarios)[j].action # <<>>
                  /\ RefsOfScenarios(cfg.scenarios)[j].action[1].type = "reward_points"}}

\* The params name award or deduct and hold exactly one of points and
\* points_formula.
ExactlyOneAmount(params) ==
    /\ ParamString(params, "operation") \in {"award", "deduct"}
    /\ HasKey(params, "points") # HasKey(params, "points_formula")

\* C27: the reward_points validate hook accepts params only when the
\* operation is award or deduct and exactly one of points and points_formula
\* is present: of the actions of the rule file on disk, it rejects those with
\* neither and those with both.
C27_ExactlyOneOfPoints ==
    disk.yaml =>
        \A params \in RewardParamsOf(disk.cfg) :
            RewardPointsValidate(params) => ExactlyOneAmount(params)

ArithmeticOperators == {"*", "/", "+", "-"}

\* The number an operand token of a formula stands for on an event: a
\* numeric literal, or a field path that resolves to a number.
OperandNumber(t, ev) ==
    CASE t.kind = "number" ->
            IF StrContains(t.val, ".") THEN ParseFloat(t.val) ELSE ParseInt(t.val)
      [] t.kind = "word" ->
            IF Resolve(ev, StrSplit(t.val, ".")).ok
               /\ IsNumeric(Resolve(ev, StrSplit(t.val, ".")).value)
            THEN Resolve(ev, StrSplit(t.val, ".")) ELSE Absent
      [] OTHER -> Absent

\* The tokens are operand (operator operand)+ with arithmetic operators and
\* operands that are numbers on the event, no divisor being zero.
ArithmeticTokens(tokens, ev) ==
    /\ Len(tokens) >= 4
    /\ Len(tokens) % 2 = 0
    /\ tokens[Len(tokens)].kind = "eof"
    /\ \A i \in 1..(Len(tokens) - 1) :
          IF i % 2 = 1 THEN OperandNumber(tokens[i], ev).ok
          ELSE /\ tokens[i].kind = "op" /\ tokens[i].val \in ArithmeticOperators
               /\ tokens[i].val = "/" => OperandNumber(tokens[i + 1], ev).value.n # 0

\* The text is a composition of arithmetic operators over field paths and
\* numeric literals that has a value on the event.
ArithmeticFormula(text, ev) ==
    text # "" /\ tokenize(text).ok /\ ArithmeticTokens(tokenize(text).tokens, ev)

\* The actions matched for the event a worker has processed succeeded
\* wherever their points_formula is an arithmetic formula.
FormulasSucceeded(matches, ev, result) ==
    \A i \in DOMAIN matches :
        (/\ matches[i].node.actionType = "reward_points"
         /\ ArithmeticFormula(ParamString(matches[i].node.params, "points_formula"), ev))
            => result.actions_executed[i].success

\* C28: a points_formula that is a composition of arithmetic operators over
\* field paths and numeric literals, of two operands or of more (such as
\* payload.quantity * payload.unit_price * 0.02), parses and evaluates, so
\* the action of every processed event that carries one succeeds.
C28_ComposedFormulaSucceeds ==
    \A w \in Workers :
        worker[w].pc = "done" =>
            FormulasSucceeded(Evaluate(graphs[worker[w].g], worker[w].job.ev).matches,
                              worker[w].job.ev, worker[w].result)

Sym(s) == [kind |-> "sym", val |-> s]

\* The comparison spelled by the three tokens from position i, if any.
ComparisonAt(tokens, i) ==
    IF i + 2 < Len(tokens)
    THEN parseComparison(SubSeq(tokens, i, i + 2) \o <<Tok("eof", "")>>, 1)
    ELSE ParseError(i)

RECURSIVE Items(_, _)
\* The tokens from position i on, read as a sequence of parentheses, the
\* words AND, OR and NOT, and whole comparisons; a token that is none of
\* these stands for itself.
Items(tokens, i) ==
    IF i >= Len(tokens) THEN <<>>
    ELSE IF tokens[i].kind \in {"lparen", "rparen"}
    THEN <<Sym(tokens[i].val)>> \o Items(tokens, i + 1)
    ELSE IF \E w \in {"AND", "OR", "NOT"} : IsKeyword(tokens[i], w)
    THEN <<Sym(StrToUpper(tokens[i].val))>> \o Items(tokens, i + 1)
    ELSE IF ComparisonAt(tokens, i).ok
    THEN <<ComparisonAt(tokens, i).node>> \o Items(tokens, i + 3)
    ELSE <<[kind |-> "junk", val |-> tokens[i].val]>> \o Items(tokens, i + 1)

\* An item that may begin an expression, and one that may end one.
Opens(item) == item.kind = "cmp" \/ item \in {Sym("NOT"), Sym("(")}

Closes(item) == item.kind = "cmp" \/ item = Sym(")")

\* The number of "(" minus the number of ")" among the first n items.
Depth(items, n) ==
    Cardinality({k \in 1..n : items[k] = Sym("(")})
        - Cardinality({k \in 1..n : items[k] = Sym(")")})

\* The items spell one complete expression of the grammar
\*   or = and (OR and)*, and = not (AND not)*, not = NOT not | ( or ) | cmp.
Grammatical(items) ==
    /\ items # <<>>
    /\ Opens(items[1]) /\ Closes(items[Len(items)])
    /\ \A k \in 1..(Len(items) - 1) :
          IF Closes(items[k])
          THEN items[k + 1] \in {Sym("AND"), Sym("OR"), Sym(")")}
          ELSE items[k] \in {Sym("AND"), Sym("OR"), Sym("NOT"), Sym("(")}
               /\ Opens(items[k + 1])
    /\ \A n \in 1..Len(items) : Depth(items, n) >= 0
    /\ Depth(items, Len(items)) = 0

Group(items) == <<Sym("(")>> \o items \o <<Sym(")")>>

RECURSIVE Render(_)
\* A tree written back as items, with parentheses only where OR < AND < NOT
\* and left associativity would otherwise group differently.
Render(e) ==
    CASE e.kind = "cmp" -> <<e>>
      [] e.kind = "not" ->
            <<Sym("NOT")>> \o (IF e.expr.kind = "binary" THEN Group(Render(e.expr))
                               ELSE Render(e.expr))
      [] e.kind = "binary" /\ e.op = "AND" ->
            (IF e.left.kind = "binary" /\ e.left.op = "OR" THEN Group(Render(e.left))
             ELSE Render(e.left))
            \o <<Sym("AND")>>
            \o (IF e.right.kind = "binary" THEN Group(Render(e.right))
                ELSE Render(e.right))
      [] e.kind = "binary" /\ e.op = "OR" ->
            Render(e.left) \o <<Sym("OR")>>
            \o (IF e.right.kind = "binary" /\ e.right.op = "OR"
                THEN Group(Render(e.right)) ELSE Render(e.right))
      [] OTHER -> <<[kind |-> "junk", val |-> ""]>>

\* Parse's answer p for the tokens of an expression, read as items: it
\* succeeds exactly when they spell one complete expression, and then its
\* tree groups the comparisons as the expression does.
ParsedItems(items, p) ==
    /\ p.ok <=> Grammatical(items)
    /\ p.ok => Render(p.node) = items

\* The same for what tokenize made of the expression.
ParsedAsWritten(lexed) ==
    IF ~lexed.ok THEN ~parseTokens(lexed).ok
    ELSE ParsedItems(Items(lexed.tokens, 1), parseTokens(lexed))

\* The condition expressions of a list of children.
ExpressionsOf(refs) ==
    {refs[i].condition[1].expression : i \in {j \in DOMAIN refs : refs[j].condition # <<>>}}

\* Every condition of a rule document is parsed as it is written.
DocumentParsedAsWritten(file) ==
    file.yaml =>
        \A text \in ExpressionsOf(RefsOfScenarios(file.cfg.scenarios)) :
            ParsedAsWritten(tokenize(text))

\* C29: parsing respects OR < AND < NOT < comparison and left associativity,
\* parentheses override both, and tokens after one complete expression make
\* Parse fail: for every condition of a rule file written to disk, Parse
\* succeeds exactly when the text is one complete expression, and the tree it
\* returns, written back with parentheses only where precedence and
\* associativity require them, is the text.
C29_PrecedenceAndAssociativity ==
    [][disk' # disk => DocumentParsedAsWritten(disk')]_vars

\* The comparisons of the precedence rules.
CmpA == ComparisonExpr(FieldOperand(<<"payload", "a">>), ">", LiteralOperand(NumV(1 * Scale)))

CmpB == ComparisonExpr(FieldOperand(<<"payload", "b">>), ">", LiteralOperand(NumV(2 * Scale)))

CmpC == ComparisonExpr(FieldOperand(<<"payload", "c">>), ">", LiteralOperand(NumV(3 * Scale)))

\* The rules of FilePrecedence were built and swapped in, with the trees the
\* precedence rules give, and the file with trailing tokens was refused.
C29_PrecedenceRulesBuilt ==
    /\ disk = FilePrecedence
    /\ graph > 1
    /\ graphs[graph].nodes["p_or_and"].expr
          = BinaryExpr("OR", CmpA, BinaryExpr("AND", CmpB, CmpC))
    /\ graphs[graph].nodes["p_not_and"].expr = BinaryExpr("AND", NotExpr(CmpA), CmpB)
    /\ graphs[graph].nodes["p_and_and"].expr
          = BinaryExpr("AND", BinaryExpr("AND", CmpA, CmpB), CmpC)
    /\ graphs[graph].nodes["p_group"].expr
          = BinaryExpr("AND", BinaryExpr("OR", CmpA, CmpB), CmpC)
    /\ ~Parse("payload.a > 1 payload.b").ok

\* The operators of a Comparison node.
ComparisonOperators ==
    {"==", "!=", ">", ">=", "<", "<=", "contains", "matches", "*", "/", "+", "-"}

\* The Comparison nodes of the conditions of a graph.
ComparisonsOf(g) ==
    UNION {{e \in SubExprs(n.expr) : e.kind = "cmp"} : n \in ConditionNodes(g)}

\* C30: every Comparison node that Parse returns has one of the operators
\* ==, !=, >, >=, <, <=, contains, matches, *, /, +, -; an expression that
\* spells an operator otherwise (a single =, a lone !) is rejected, so no
\* graph the engine was given holds a comparison with another operator.
C30_ComparisonOperators ==
    \A i \in DOMAIN graphs :
        \A e \in ComparisonsOf(graphs[i]) : e.op \in ComparisonOperators

\* C31: the boolean condition evaluator never reaches an arithmetic operator:
\* a condition whose operator is *, /, + or - does not compile at build time,
\* so no condition node of a graph the engine was given has a comparison with
\* one of them.
C31_NoArithmeticCondition ==
    \A i \in DOMAIN graphs :
        \A e \in ComparisonsOf(graphs[i]) : e.op \notin ArithmeticOperators

\* Equality as documented: numbers by value, two booleans by identity, and
\* every other pair by its string representations.
EqualAsDocumented(left, right) ==
    IF IsNumeric(left) /\ IsNumeric(right) THEN left.n = right.n
    ELSE IF left.t = "bool" /\ right.t = "bool" THEN left.b = right.b
    ELSE Format(left) = Format(right)

\* compare gives two values the documented equality, in both orders, and
\* the negation of it for !=.
EqualityLaw(left, right) ==
    /\ compare("==", left, right) = Bool(EqualAsDocumented(left, right))
    /\ compare("==", right, left) = compare("==", left, right)
    /\ compare("!=", left, right) = Bool(~EqualAsDocumented(left, right))

\* The law for the operands of one comparison on an event, where both
\* resolve.
EqualityOf(left, right) == (left.ok /\ right.ok) => EqualityLaw(left.value, right.value)

\* The == and != comparisons of the conditions of a graph.
EqualitiesOf(g) == {e \in ComparisonsOf(g) : e.op \in {"==", "!="}}

\* C32: == holds of two numbers iff they are equal, of two booleans iff they
\* are identical, and of every other pair, a pair with exactly one boolean
\* included, iff their string representations are equal; it does not depend
\* on the operand order, and != is its negation.  This holds of the operands
\* of every equality of the graph an event was evaluated against.
C32_EqualityAsDocumented ==
    \A w \in Workers :
        worker[w].pc = "done" =>
            \A e \in EqualitiesOf(graphs[worker[w].g]) :
                EqualityOf(resolveOperand(e.left, worker[w].job.ev),
                           resolveOperand(e.right, worker[w].job.ev))

\* C33: in every state the events-processed counter is at most the
\* events-enqueued counter: no event is counted as processed before it has
\* been counted as enqueued.
C33_ProcessedAtMostEnqueued == metrics.processed <= metrics.enqueued

\* The workers that hold a job.
Holding == {w \in Workers : worker[w].pc \in {"received", "loaded", "done"}}

\* The ids of the events on the queue, in order.
QueuedIds == [i \in DOMAIN queue |-> queue[i].ev.id]

\* Every accepted event is in one place only: once on the queue or with one
\* worker, and in neither once its processing has finished.
HeldOnce ==
    /\ \A i, j \in DOMAIN queue : QueuedIds[i] = QueuedIds[j] => i = j
    /\ \A w, v \in Holding : worker[w].job.ev.id = worker[v].job.ev.id => w = v
    /\ \A w \in Holding :
          /\ \A i \in DOMAIN queue : QueuedIds[i] # worker[w].job.ev.id
          /\ worker[w].job.ev.id \notin finished
    /\ \A i \in DOMAIN queue : QueuedIds[i] \notin finished

\* A result channel holds at most one result, that of its own event, and a
\* caller has been handed the result of its own event only.
OwnResult ==
    /\ \A id \in DOMAIN resultC :
          /\ Len(resultC[id]) <= 1
          /\ \A k \in DOMAIN resultC[id] : resultC[id][k].event_id = id
    /\ \A c \in Callers :
          \A k \in DOMAIN caller[c].signals :
              caller[c].signals[k].kind = "result" =>
                  caller[c].signals[k].res.event_id = caller[c].ev.id

\* C34: each accepted event is processed at most once, by a single worker,
\* and the result delivered to a ProcessSync caller is the result of that
\* caller's own event, never that of an event submitted concurrently.
C34_ProcessedOnceOwnResult == HeldOnce /\ OwnResult

\* Two ProcessSync calls overlapped: one has returned with the result of its
\* event while the result of the other's event waits in its channel.
C34_TwoCallersOwnResults ==
    \E c, d \in Callers :
        /\ c # d
        /\ caller[c].sync /\ caller[c].pc = "returned"
        /\ \E k \in DOMAIN caller[c].signals :
              /\ caller[c].signals[k].kind = "result"
              /\ caller[c].signals[k].res.event_id = caller[c].ev.id
        /\ caller[d].sync /\ caller[d].pc = "select"
        /\ caller[d].ev.id # caller[c].ev.id
        /\ Len(resultC[caller[d].ev.id]) = 1

\* An accepted event is still to be processed or counted: it is on the
\* queue, with a worker, or its submitter has not yet counted it as enqueued.
Pending ==
    \/ queue # <<>>
    \/ Holding # {}
    \/ \E c \in Callers : caller[c].pc = "accepted"

\* Every accepted event has been processed and counted.
Quiescent ==
    /\ queue = <<>>
    /\ Holding = {}
    /\ metrics.processed = metrics.enqueued

\* C35: under fair scheduling and while the engine context is not cancelled,
\* every accepted event is eventually dequeued and processed: from a state
\* with an event pending, the engine comes to a state in which the queue is
\* empty, no worker holds an event and the processed counter equals the
\* enqueued counter (or its context is cancelled).
C35_AcceptedEventuallyProcessed == Pending ~> (Quiescent \/ ctxDone)

\* The engine has not been shut down, at least two events were accepted, one
\* of them through ProcessAsync, and all of them have been processed.
C35_DrainedAfterBacklog ==
    /\ Quiescent
    /\ ~ctxDone
    /\ metrics.processed >= 2
    /\ \E c \in Callers : caller[c].pc = "returned" /\ ~caller[c].sync

\* C36: a ProcessSync or ProcessAsync that runs concurrently with or after
\* Engine.Shutdown does not crash: its Submit either enqueues the event or
\* reports a rejection, so no call ever ends in a panic.
C36_SubmitNeverPanics == \A c \in Callers : caller[c].pc # "panicked"

\* A reload ends in this step: the watcher is back from its callbacks, or
\* reloadRules has answered after its build.
ReloadEnds ==
    \/ watcher.pc = "callbacks" /\ watcher'.pc = "idle"
    \/ reloader.pc = "build" /\ reloader'.pc = "returned"

\* No reload is in progress after this step.
NoReloadAfter == watcher'.pc = "idle" /\ reloader'.pc \in {"idle", "returned"}

\* C37: whenever no reload is in progress, the configuration the loader
\* reports as current is the document the engine's active graph was built
\* from; a reload whose document is rejected changes neither.  The two agree
\* at startup and change in reloads only, so it is enough that they agree
\* after every step that ends a reload and leaves none in progress.
C37_CurrentIsActiveDocument ==
    [][(ReloadEnds /\ NoReloadAfter) => graphs'[graph'] = Build(current').graph]_vars

\* Loader.load stores the document it read in l.current, so current is the
\* document of the reload that read the rule file last.  The document is
\* accepted when it passes both config.Validate and dag.Build.
Accepted(cfg) == Validate(cfg) /\ Build(cfg).ok

\* C38: reloads take effect in load order: once the reloads that were under
\* way have finished, the active graph is the one built from the revision
\* that was read last; the graph of an older revision never overwrites it,
\* also when a watcher reload and an HTTP reload overlap.
C38_ReloadsInLoadOrder ==
    [][(ReloadEnds /\ NoReloadAfter /\ Accepted(current'))
          => graphs'[graph'] = Build(current').graph]_vars

\* C39: processing an event always terminates: on every graph that became
\* active, at startup or through a reload, and for every event, dfs visits
\* each node a bounded number of times and dag.Evaluate returns; no worker
\* ever exhausts its stack in the traversal.
C39_EvaluateReturns == \A w \in Workers : worker[w].pc # "overflow"

====
